---- MODULE Spec2Model ----
(***************************************************************************)
(* A model of the AT channel of the goldfish radio HAL                     *)
(* (hals/radio/AtChannel.{h,cpp}) together with the parts of the service   *)
(* handlers and of the line parser (hals/radio/AtResponse.cpp) that use it.*)
(*                                                                         *)
(* Spec / FairSpec: the Channel: the request worker (requestLoop), the     *)
(*   reader worker (readingLoop), the Conversation of the Channel and the  *)
(*   Conversation of one service handler (RadioVoice), the subscriber      *)
(*   list, the modem as the environment.                                   *)
(* ParseSpec: the line parser applied to byte spans.                       *)
(***************************************************************************)
EXTENDS Integers, Sequences, FiniteSets, TLC

(***************************************************************************)
(* Bounds of the model.                                                    *)
(***************************************************************************)
\* closures the RPC callers queue in one run
MaxRequests == 3
\* messages the host channel buffers between the modem and the reader
MaxWire == 1
\* commands of the initialization sequence (15 in main; every one is the
\* same Conversation call with the filter holds<OK>)
InitLen == 1
\* IdAllocator: the counter is not taken beyond this
MaxIds == 5

(***************************************************************************)
(* Values.                                                                 *)
(***************************************************************************)
\* nullptr of AtResponsePtr / an unfulfilled promise
NoResp == [kind |-> "none", req |-> 0]
\* nullptr of const FilterFunc*
NoFilter == "nullptr"
\* the only filter the modelled callers arm: response.holds<OK>()
FilterOK == "isOK"
\* no Conversation call in progress on the request worker
NoCall == [conv |-> "none", req |-> 0, end |-> "none"]
\* the empty Requester the destructor queues
Sentinel == [id |-> 0, kind |-> "sentinel"]
\* no requester dequeued
NoRequester == [id |-> 0, kind |-> "none"]

\* Conversation instances: AtChannel::mConversation and RadioVoice::mAtConversation
Convs == {"channel", "voice"}
\* service handlers registered as response sinks
Sinks == {"voice", "ims"}
\* kinds of request closures: setCallWaiting (one Conversation call, filter
\* isOK) and acceptCall (transmit only)
Kinds == {"conv", "fire"}

\* nullptr of AtResponsePtr, as the line parser returns it
nullptr == [id |-> "nullptr", payload |-> <<>>]
\* AtResponse::ParseResult of a span with no complete message
Incomplete == [consumed |-> 0, response |-> nullptr]

VARIABLES
    \* AtChannel
    mRequesterQueue, mResponseSinks, mHostChannel, mReaderJoinable,
    \* Conversation::mFilter and Conversation::mSink, per instance
    mFilter, mSink,
    \* request worker
    reqPc, requester, initIdx, call, callPc, callResult,
    \* reader worker
    readerPc, readerFd, response,
    \* environment: the modem, the device, the RPC callers
    wire, pending, alive, nQueued, nOpened, destroyed,
    \* the process
    abortCause,
    \* history
    invLog, running, outstanding, waited, claimedBy, sinkCalls,
    unsolCalls, sinksAtLock, resetCause,
    \* history: the handle on which mInitSequence last returned true
    initDone,
    \* the line parser: the line the modem sends, the span of it the reader
    \* holds, the parser's position and its result
    pLine, pIn, pPc, pOut,
    \* the reader worker on a stream of bytes: the bytes the modem sends, how
    \* many of them the reads have returned, readingLoop's `unconsumed`, the
    \* responses handed to broadcastResponse, the reader's position
    stream, nRead, unconsumed, dispatched, rdPc,
    \* the handlers behind the response sinks: the registered closures in
    \* registration order, the handlers still alive, how often each handler's
    \* atResponseSink ran, RadioNetwork's mCreg.state and how often
    \* handleUnsolicited(CREG) assigned it
    netResponseSinks, netAlive, netCalls, mCreg, cregUpdates,
    \* history: the closures the last broadcastResponse invoked, in the order
    \* of the calls, and the number of responses broadcast
    netOrder, netSeen,
    \* IdAllocator: the counter, the returned ids, what get() returned last
    mIdGenerator, mReturnedIds, idResult,
    \* history: for every id, how many get() calls returned it and have not
    \* been followed by a put() of it
    idHolders,
    \* the mutexes: the thread that holds each Conversation's mMtx and
    \* mResponseSinksMtx, where the request worker is in
    \* Conversation::operator(), where the reader worker is in
    \* broadcastResponse, how many addResponseSink calls main has made, and
    \* each Conversation's filter (armed or not) and promise (fulfilled or not)
    mtxOwner, lkReq, lkRd, lkAdds, lkFilter, lkPromise,
    \* RadioSim: its mRadioState, where the reader worker is in
    \* handleUnsolicited(CFUN), where a binder thread is in
    \* areUiccApplicationsEnabled, and the last access to mRadioState
    mRadioState, simRd, simRpc, simAccess,
    \* RadioData: the keys of mDataCalls, mKeepAliveSessions, where the
    \* request worker is in a setupDataCall closure and where a binder thread
    \* is in startKeepalive or stopKeepalive
    mDataCalls, mKeepAliveSessions, dataSetup, dataKeep

vars == <<mRequesterQueue, mResponseSinks, mHostChannel, mReaderJoinable,
          mFilter, mSink, reqPc, requester, initIdx, call, callPc, callResult,
          readerPc, readerFd, response, wire, pending, alive, nQueued,
          nOpened, destroyed, abortCause, invLog, running,
          outstanding, waited, claimedBy, sinkCalls, unsolCalls,
          sinksAtLock, resetCause, initDone, pLine, pIn, pPc,
          pOut,
          stream, nRead, unconsumed, dispatched, rdPc,
          netResponseSinks, netAlive, netCalls, mCreg, cregUpdates,
          netOrder, netSeen,
          mIdGenerator, mReturnedIds, idResult, idHolders,
          mtxOwner, lkReq, lkRd, lkAdds, lkFilter, lkPromise,
          mRadioState, simRd, simRpc, simAccess,
          mDataCalls, mKeepAliveSessions, dataSetup, dataKeep>>

chanVars == <<mRequesterQueue, mResponseSinks, mHostChannel, mReaderJoinable>>
convVars == <<mFilter, mSink>>
reqVars == <<reqPc, requester, initIdx, call, callPc, callResult>>
readerVars == <<readerPc, readerFd, response>>
envVars == <<wire, pending, alive, nQueued, nOpened, destroyed>>
dispatchHist == <<claimedBy, sinkCalls, unsolCalls, sinksAtLock>>
reqHist == <<invLog, running, outstanding, waited, resetCause, initDone>>
channelVars == <<chanVars, convVars, reqVars, readerVars, envVars,
                 abortCause, dispatchHist, reqHist>>
lineVars == <<pLine, pIn, pPc, pOut>>
streamVars == <<stream, nRead, unconsumed, dispatched, rdPc>>
netVars == <<netResponseSinks, netAlive, netCalls, mCreg, cregUpdates,
             netOrder, netSeen>>
idVars == <<mIdGenerator, mReturnedIds, idResult, idHolders>>
lockVars == <<mtxOwner, lkReq, lkRd, lkAdds, lkFilter, lkPromise>>
simVars == <<mRadioState, simRd, simRpc, simAccess>>
dataVars == <<mDataCalls, mKeepAliveSessions, dataSetup, dataKeep>>
handlerVars == <<simVars, dataVars>>
unitVars == <<netVars, idVars, lockVars, handlerVars>>
nonLockVars == <<channelVars, lineVars, streamVars, netVars, idVars,
                 handlerVars>>
parseVars == <<lineVars, streamVars, unitVars>>

aborted == abortCause # "none"

(***************************************************************************)
(* Helpers.                                                                *)
(***************************************************************************)
Range(f) == {f[i] : i \in DOMAIN f}

ZeroCalls == [s \in Sinks |-> 0]

(***************************************************************************)
(* Initial state: the state after AtChannel's constructor (the request     *)
(* worker started, no handle, no reader worker, nothing queued, no sink).  *)
(***************************************************************************)
ChannelInit ==
    /\ mRequesterQueue = <<>>
    /\ mResponseSinks = <<>>
    /\ mHostChannel = 0
    /\ mReaderJoinable = FALSE
    /\ mFilter = [c \in Convs |-> NoFilter]
    /\ mSink = [c \in Convs |-> NoResp]
    /\ reqPc = "get"
    /\ requester = NoRequester
    /\ initIdx = 0
    /\ call = NoCall
    /\ callPc = "none"
    /\ callResult = NoResp
    /\ readerPc = "none"
    /\ readerFd = 0
    /\ response = NoResp
    /\ wire = <<>>
    /\ pending = <<>>
    /\ alive = [s \in Sinks |-> TRUE]
    /\ nQueued = 0
    /\ nOpened = 0
    /\ destroyed = FALSE
    /\ abortCause = "none"
    /\ invLog = <<>>
    /\ running = {}
    /\ outstanding = {}
    /\ waited = [c \in Convs |-> {}]
    /\ claimedBy = {}
    /\ sinkCalls = ZeroCalls
    /\ unsolCalls = ZeroCalls
    /\ sinksAtLock = <<>>
    /\ resetCause = "none"
    /\ initDone = 0

\* no bytes received
ParseIdle ==
    /\ pLine = <<>>
    /\ pIn = <<>>
    /\ pPc = "none"
    /\ pOut = Incomplete

\* no reader worker on a stream
StreamIdle ==
    /\ stream = <<>>
    /\ nRead = 0
    /\ unconsumed = <<>>
    /\ dispatched = <<>>
    /\ rdPc = "none"

\* no handler constructed
NetIdle ==
    /\ netResponseSinks = <<>>
    /\ netAlive = {}
    /\ netCalls = <<>>
    /\ mCreg = 0
    /\ cregUpdates = 0
    /\ netOrder = <<>>
    /\ netSeen = 0

\* IdAllocator as constructed
IdIdle ==
    /\ mIdGenerator = 0
    /\ mReturnedIds = {}
    /\ idResult = 0
    /\ idHolders = [id \in 1..MaxIds |-> 0]

\* every mutex free, the request worker between closures, the reader worker
\* in ::read, main before its addResponseSink calls, no Conversation armed
LockIdle ==
    /\ mtxOwner = [m \in Convs \cup {"sinks", "sim"} |-> "none"]
    /\ lkReq = [pc |-> "idle", conv |-> "none"]
    /\ lkRd = [pc |-> "read", ok |-> FALSE]
    /\ lkAdds = 0
    /\ lkFilter = [c \in Convs |-> FALSE]
    /\ lkPromise = [c \in Convs |-> FALSE]

\* RadioSim as constructed, nothing running in it
SimIdle ==
    /\ mRadioState = "OFF"
    /\ simRd = [pc |-> "idle", state |-> "OFF"]
    /\ simRpc = [pc |-> "idle", radioState |-> "OFF"]
    /\ simAccess = [by |-> "none", op |-> "none", held |-> TRUE]

\* the binder threads that run startKeepalive and stopKeepalive
Binders == {"binder1", "binder2"}

\* RadioData as constructed, nothing running in it
DataIdle ==
    /\ mDataCalls = {}
    /\ mKeepAliveSessions = {}
    /\ dataSetup = [pc |-> "idle", cid |-> 0]
    /\ dataKeep = [b \in Binders |-> [pc |-> "idle", id |-> 0]]

HandlerIdle == SimIdle /\ DataIdle

UnitIdle == NetIdle /\ IdIdle /\ LockIdle /\ HandlerIdle

Init == ChannelInit /\ ParseIdle /\ StreamIdle /\ UnitIdle

\* LOG_ALWAYS_FATAL: the process aborts and all of its state is gone; only
\* the cause and the history of the run are kept
Abort(cause) ==
    /\ abortCause' = cause
    /\ mRequesterQueue' = <<>>
    /\ mResponseSinks' = <<>>
    /\ mHostChannel' = 0
    /\ mReaderJoinable' = FALSE
    /\ mFilter' = [c \in Convs |-> NoFilter]
    /\ mSink' = [c \in Convs |-> NoResp]
    /\ reqPc' = "aborted"
    /\ requester' = NoRequester
    /\ initIdx' = 0
    /\ call' = NoCall
    /\ callPc' = "none"
    /\ callResult' = NoResp
    /\ readerPc' = "aborted"
    /\ readerFd' = 0
    /\ response' = NoResp
    /\ wire' = <<>>
    /\ pending' = <<>>
    /\ alive' = [s \in Sinks |-> TRUE]
    /\ nQueued' = 0
    /\ nOpened' = 0
    /\ destroyed' = FALSE
    /\ running' = {}
    /\ outstanding' = {}
    /\ waited' = [c \in Convs |-> {}]
    /\ claimedBy' = {}
    /\ sinkCalls' = ZeroCalls
    /\ unsolCalls' = ZeroCalls
    /\ sinksAtLock' = <<>>
    /\ UNCHANGED <<invLog, resetCause, initDone>>

(***************************************************************************)
(* The RPC callers and the owner of the Channel.                           *)
(***************************************************************************)
\* AtChannel::queueRequester: push_back under mRequestQueueMtx
QueueRequester(k) ==
    /\ ~aborted
    /\ ~destroyed
    /\ nQueued < MaxRequests
    /\ nQueued' = nQueued + 1
    /\ mRequesterQueue' = Append(mRequesterQueue, [id |-> nQueued + 1, kind |-> k])
    /\ UNCHANGED <<mResponseSinks, mHostChannel, mReaderJoinable, convVars, reqVars,
                   readerVars, wire, pending, alive, nOpened,
                   destroyed, abortCause, dispatchHist, reqHist>>
    /\ UNCHANGED parseVars

\* AtChannel::~AtChannel: queueRequester({})
Destroy ==
    /\ ~aborted
    /\ ~destroyed
    /\ destroyed' = TRUE
    /\ mRequesterQueue' = Append(mRequesterQueue, Sentinel)
    /\ UNCHANGED <<mResponseSinks, mHostChannel, mReaderJoinable, convVars, reqVars,
                   readerVars, wire, pending, alive, nQueued, nOpened, abortCause, dispatchHist, reqHist>>
    /\ UNCHANGED parseVars

\* AtChannel::addResponseSink: push_back under mResponseSinksMtx (main's
\* addResponseSink wraps a handler's atResponseSink in a weak_ptr closure)
AddResponseSink(s) ==
    /\ ~aborted
    /\ alive[s]
    /\ s \notin Range(mResponseSinks)
    /\ mResponseSinks' = Append(mResponseSinks, s)
    /\ UNCHANGED <<mRequesterQueue, mHostChannel, mReaderJoinable, convVars, reqVars,
                   readerVars, envVars, abortCause, dispatchHist, reqHist>>
    /\ UNCHANGED parseVars

\* the last shared_ptr to a handler that owns no queued closure goes away:
\* the weak_ptr of its sink closure expires
ReleaseHandler(s) ==
    /\ ~aborted
    /\ s = "ims"
    /\ alive[s]
    /\ s \in Range(mResponseSinks)
    /\ alive' = [alive EXCEPT ![s] = FALSE]
    /\ UNCHANGED <<chanVars, convVars, reqVars, readerVars, wire, pending, nQueued,
                   nOpened, destroyed, abortCause, dispatchHist,
                   reqHist>>
    /\ UNCHANGED parseVars

(***************************************************************************)
(* The modem (the far end of the host channel).                            *)
(***************************************************************************)
\* the modem answers the oldest command it has received with OK
ModemReply ==
    /\ ~aborted
    /\ pending # <<>>
    /\ Len(wire) < MaxWire
    /\ wire' = Append(wire, [kind |-> "OK", req |-> Head(pending)])
    /\ pending' = Tail(pending)
    /\ UNCHANGED <<chanVars, convVars, reqVars, readerVars, alive, nQueued, nOpened, destroyed, abortCause, dispatchHist, reqHist>>
    /\ UNCHANGED parseVars

\* the modem sends an unsolicited RING
ModemUnsol ==
    /\ ~aborted
    /\ Len(wire) < MaxWire
    /\ wire' = Append(wire, [kind |-> "RING", req |-> 0])
    /\ UNCHANGED <<chanVars, convVars, reqVars, readerVars, pending, alive, nQueued,
                   nOpened, destroyed, abortCause, dispatchHist, reqHist>>
    /\ UNCHANGED parseVars

(***************************************************************************)
(* Conversation.                                                           *)
(***************************************************************************)
\* the Response Type Registry: the tables of AtResponse::parse, in order.
\* `name` is the variant whose payload parser the entry holds, `cmd` is id()
\* of that variant
plusValueParsers == <<
    [name |-> "CPIN", cmd |-> <<"C", "P", "I", "N">>, multiline |-> FALSE],
    [name |-> "CPINR", cmd |-> <<"C", "P", "I", "N">>, multiline |-> FALSE],
    [name |-> "CRSM", cmd |-> <<"C", "R", "S", "M">>, multiline |-> FALSE],
    [name |-> "CFUN", cmd |-> <<"C", "F", "U", "N">>, multiline |-> FALSE],
    [name |-> "CREG", cmd |-> <<"C", "R", "E", "G">>, multiline |-> FALSE],
    [name |-> "CEREG", cmd |-> <<"C", "E", "R", "E", "G">>, multiline |-> FALSE],
    [name |-> "CGREG", cmd |-> <<"C", "G", "R", "E", "G">>, multiline |-> FALSE],
    [name |-> "CTEC", cmd |-> <<"C", "T", "E", "C">>, multiline |-> FALSE],
    [name |-> "COPS", cmd |-> <<"C", "O", "P", "S">>, multiline |-> TRUE],
    [name |-> "WRMP", cmd |-> <<"W", "R", "M", "P">>, multiline |-> FALSE],
    [name |-> "CCSS", cmd |-> <<"C", "C", "S", "S">>, multiline |-> FALSE],
    [name |-> "CSQ", cmd |-> <<"C", "S", "Q">>, multiline |-> FALSE],
    [name |-> "CLCC", cmd |-> <<"C", "L", "C", "C">>, multiline |-> TRUE],
    [name |-> "CCFCU", cmd |-> <<"C", "C", "F", "C", "U">>, multiline |-> TRUE],
    [name |-> "CCWA", cmd |-> <<"C", "C", "W", "A">>, multiline |-> FALSE],
    [name |-> "CUSATD", cmd |-> <<"C", "U", "S", "A", "T", "D">>, multiline |-> FALSE],
    [name |-> "CUSATP", cmd |-> <<"C", "U", "S", "A", "T", "P">>, multiline |-> FALSE],
    [name |-> "CUSATE", cmd |-> <<"C", "U", "S", "A", "T", "E">>, multiline |-> FALSE],
    [name |-> "CUSATT", cmd |-> <<"C", "U", "S", "A", "T", "T">>, multiline |-> FALSE],
    [name |-> "CUSATEND", cmd |-> <<"C", "U", "S", "A", "T", "E", "N", "D">>, multiline |-> FALSE],
    [name |-> "CGDCONT", cmd |-> <<"C", "G", "D", "C", "O", "N", "T">>, multiline |-> TRUE],
    [name |-> "CGCONTRDP", cmd |-> <<"C", "G", "C", "O", "N", "T", "R", "D", "P">>, multiline |-> FALSE],
    [name |-> "CLCK", cmd |-> <<"C", "L", "C", "K">>, multiline |-> FALSE],
    [name |-> "CSIM", cmd |-> <<"C", "S", "I", "M">>, multiline |-> FALSE],
    [name |-> "CCHC", cmd |-> <<"C", "C", "H", "C">>, multiline |-> FALSE],
    [name |-> "CLIP", cmd |-> <<"C", "L", "I", "P">>, multiline |-> FALSE],
    [name |-> "CLIR", cmd |-> <<"C", "L", "I", "R">>, multiline |-> FALSE],
    [name |-> "CMUT", cmd |-> <<"C", "M", "U", "T">>, multiline |-> FALSE],
    [name |-> "WSOS", cmd |-> <<"W", "S", "O", "S">>, multiline |-> FALSE],
    [name |-> "CSCA", cmd |-> <<"C", "S", "C", "A">>, multiline |-> FALSE],
    [name |-> "CSCB", cmd |-> <<"C", "S", "C", "B">>, multiline |-> FALSE],
    [name |-> "CMGS", cmd |-> <<"C", "M", "G", "S">>, multiline |-> FALSE],
    [name |-> "CMGW", cmd |-> <<"C", "M", "G", "W">>, multiline |-> FALSE],
    [name |-> "CmeError", cmd |-> <<"C", "M", "E", " ", "E", "R", "R", "O", "R">>, multiline |-> FALSE],
    [name |-> "CmsError", cmd |-> <<"C", "M", "S", " ", "E", "R", "R", "O", "R">>, multiline |-> FALSE]
  >>

percentValueParsers == <<
    [name |-> "CTZV", cmd |-> <<"C", "T", "Z", "V">>, multiline |-> FALSE],
    [name |-> "CGFPCCFG", cmd |-> <<"C", "G", "F", "P", "C", "C", "F", "G">>, multiline |-> FALSE]
  >>

caretValueParsers == <<
    [name |-> "MBAU", cmd |-> <<"M", "B", "A", "U">>, multiline |-> FALSE]
  >>

\* a holds<T> that tests for the variant only
holdsVariant(T, r) == r.id = T

\* AtResponse::holds<T>() on a parsed response: the variant T, or a
\* ParseError whose cmd is T::id(); the specialisations for OK, SmsPrompt
\* and std::string test for the variant only
holds(T, r) ==
    IF T \in {"OK", "SmsPrompt", "string"}
    THEN r.id = T
    ELSE \/ r.id = T
         \/ /\ r.id = "ParseError"
            /\ \E e \in Range(plusValueParsers) \cup Range(percentValueParsers)
                        \cup Range(caretValueParsers) :
                  e.name = T /\ e.cmd = r.payload

\* (*mFilter)(*response): the filter response.holds<OK>() of the Channel's
\* requests on their replies, and a filter response.holds<T>(), given as T,
\* on a parsed response
Matches(filter, r) ==
    IF filter = FilterOK THEN r.kind = "OK" ELSE holds(filter, r)

\* the condition of Conversation::send: mFilter && (*mFilter)(*response)
SendClaims(c, r) == mFilter[c] # NoFilter /\ Matches(mFilter[c], r)

\* Conversation::operator(), the first critical section: arm the filter and
\* replace the promise
ConvArm(c, q) ==
    /\ mFilter' = [mFilter EXCEPT ![c] = FilterOK]
    /\ mSink' = [mSink EXCEPT ![c] = NoResp]
    /\ call' = [conv |-> c, req |-> q, end |-> "none"]
    /\ callPc' = "armed"
    /\ callResult' = NoResp

\* RequestPipe::operator() succeeded: the command reaches the modem
Transmit(q) ==
    /\ pending' = Append(pending, q)
    /\ outstanding' = outstanding \cup {q}

\* a Conversation call that returns nullptr on a failed write without the
\* second critical section: mFilter stays set
ConvWriteKeepsFilter ==
    /\ ~aborted
    /\ callPc = "armed"
    /\ \/ /\ Transmit(call.req)
          /\ callPc' = "wait"
          /\ UNCHANGED <<convVars, call, callResult, waited>>
       \/ /\ callResult' = NoResp
          /\ call' = [call EXCEPT !.end = "write"]
          /\ callPc' = "ret"
          /\ waited' = [waited EXCEPT ![call.conv] = @ \cup {call.req}]
          /\ UNCHANGED <<mFilter, mSink, pending, outstanding>>
    /\ UNCHANGED <<chanVars, reqPc, requester, initIdx, readerVars, wire, alive,
                   nQueued, nOpened, destroyed, abortCause, dispatchHist,
                   invLog, running, resetCause, initDone>>
    /\ UNCHANGED parseVars

\* Conversation::operator(): requestPipe(request) and, when it fails, the
\* second critical section
ConvWrite ==
    /\ ~aborted
    /\ callPc = "armed"
    /\ \/ /\ Transmit(call.req)
          /\ callPc' = "wait"
          /\ UNCHANGED <<convVars, call, callResult, waited>>
       \/ /\ mFilter' = [mFilter EXCEPT ![call.conv] = NoFilter]
          /\ callResult' = NoResp
          /\ call' = [call EXCEPT !.end = "write"]
          /\ callPc' = "ret"
          /\ waited' = [waited EXCEPT ![call.conv] = @ \cup {call.req}]
          /\ UNCHANGED <<mSink, pending, outstanding>>
    /\ UNCHANGED <<chanVars, reqPc, requester, initIdx, readerVars, wire, alive,
                   nQueued, nOpened, destroyed, abortCause, dispatchHist,
                   invLog, running, resetCause, initDone>>
    /\ UNCHANGED parseVars

\* futureResponse.wait_for(timeout) == ready: return futureResponse.get()
ConvReady ==
    /\ ~aborted
    /\ callPc = "wait"
    /\ mSink[call.conv] # NoResp
    /\ callResult' = mSink[call.conv]
    /\ call' = [call EXCEPT !.end = "ready"]
    /\ callPc' = "ret"
    /\ waited' = [waited EXCEPT ![call.conv] = @ \cup {call.req}]
    /\ UNCHANGED <<chanVars, convVars, reqPc, requester, initIdx, readerVars, envVars,
                   abortCause, dispatchHist, invLog, running, outstanding, resetCause, initDone>>
    /\ UNCHANGED parseVars

\* a wait without a timeout, futureResponse.wait(): with the promise
\* unfulfilled the call stays blocked
ConvNoTimeout ==
    /\ ~aborted
    /\ callPc = "wait"
    /\ mSink[call.conv] = NoResp
    /\ FALSE
    /\ UNCHANGED vars

\* futureResponse.wait_for(timeout) returns timeout: the promise is not
\* fulfilled at that instant
ConvTimeout ==
    /\ ~aborted
    /\ callPc = "wait"
    /\ mSink[call.conv] = NoResp
    /\ callPc' = "expired"
    /\ outstanding' = outstanding \ {call.req}
    /\ UNCHANGED <<chanVars, convVars, reqPc, requester, initIdx, call, callResult,
                   readerVars, envVars, abortCause, dispatchHist, invLog, running,
                   waited, resetCause, initDone>>
    /\ UNCHANGED parseVars

\* a timeout branch that returns nullptr without clearing mFilter
ConvDisarmKeepsFilter ==
    /\ ~aborted
    /\ callPc = "expired"
    /\ callResult' = NoResp
    /\ call' = [call EXCEPT !.end = "timeout"]
    /\ callPc' = "ret"
    /\ waited' = [waited EXCEPT ![call.conv] = @ \cup {call.req}]
    /\ UNCHANGED <<chanVars, mFilter, mSink, reqPc, requester, initIdx, readerVars, envVars,
                   abortCause, dispatchHist, invLog, running, outstanding, resetCause, initDone>>
    /\ UNCHANGED parseVars

\* Conversation::operator(), the timeout branch: lock, mFilter = nullptr,
\* return nullptr
ConvDisarm ==
    /\ ~aborted
    /\ callPc = "expired"
    /\ mFilter' = [mFilter EXCEPT ![call.conv] = NoFilter]
    /\ callResult' = NoResp
    /\ call' = [call EXCEPT !.end = "timeout"]
    /\ callPc' = "ret"
    /\ waited' = [waited EXCEPT ![call.conv] = @ \cup {call.req}]
    /\ UNCHANGED <<chanVars, mSink, reqPc, requester, initIdx, readerVars, envVars,
                   abortCause, dispatchHist, invLog, running, outstanding, resetCause, initDone>>
    /\ UNCHANGED parseVars

(***************************************************************************)
(* The request worker: AtChannel::requestLoop.                             *)
(***************************************************************************)
\* a getRequester that takes the newest entry: back() and pop_back()
DequeueBack(q) == [item |-> q[Len(q)], rest |-> SubSeq(q, 1, Len(q) - 1)]

\* getRequester: front() and pop_front() of mRequesterQueue
Dequeue(q) == [item |-> Head(q), rest |-> Tail(q)]

\* a request loop that hands each closure to a detached thread and goes
\* back to getRequester while the closure is still running
AtLoopHeadOrRunning == reqPc \in {"get", "body"}

\* requestLoop is one thread: it calls getRequester only after the closure
\* of the previous iteration has returned
AtLoopHead == reqPc = "get"

\* while (true) { requester = getRequester(); if (!requester) break; ... }
\* and, after the loop, mHostChannel.reset()
ReqGet ==
    /\ ~aborted
    /\ AtLoopHead
    /\ mRequesterQueue # <<>>
    /\ requester' = Dequeue(mRequesterQueue).item
    /\ mRequesterQueue' = Dequeue(mRequesterQueue).rest
    /\ IF requester' = Sentinel
         THEN /\ reqPc' = "done"
              /\ mHostChannel' = 0
         ELSE /\ reqPc' = "pipe"
              /\ UNCHANGED mHostChannel
    /\ UNCHANGED <<mResponseSinks, mReaderJoinable, convVars, initIdx, call, callPc,
                   callResult, readerVars, envVars, abortCause, dispatchHist, reqHist>>
    /\ UNCHANGED parseVars

\* getHostChannelPipe with the handle open: return RequestPipe(mHostChannel.get())
ReqPipeReady ==
    /\ ~aborted
    /\ reqPc = "pipe"
    /\ mHostChannel # 0
    /\ reqPc' = "body"
    /\ UNCHANGED <<chanVars, convVars, requester, initIdx, call, callPc, callResult,
                   readerVars, envVars, abortCause, dispatchHist, reqHist>>
    /\ UNCHANGED parseVars

\* a getHostChannelPipe that starts a reader thread on the new handle
\* without joining the previous one
ReqPipeOpenNoJoin ==
    /\ ~aborted
    /\ reqPc = "pipe"
    /\ mHostChannel = 0
    /\ nOpened' = nOpened + 1
    /\ mHostChannel' = nOpened'
    /\ mReaderJoinable' = TRUE
    /\ readerPc' = "idle"
    /\ readerFd' = nOpened'
    /\ reqPc' = "init"
    /\ initIdx' = 1
    /\ UNCHANGED <<mRequesterQueue, mResponseSinks, convVars, requester, call, callPc,
                   callResult, response, wire, pending, alive, nQueued, destroyed, abortCause, dispatchHist, reqHist>>
    /\ UNCHANGED parseVars

\* a getHostChannelPipe that opens the device and starts the reader but
\* returns the pipe without running mInitSequence
ReqPipeOpenNoInit ==
    /\ ~aborted
    /\ reqPc = "pipe"
    /\ mHostChannel = 0
    /\ mReaderJoinable => readerPc = "exited"
    /\ nOpened' = nOpened + 1
    /\ mHostChannel' = nOpened'
    /\ mReaderJoinable' = TRUE
    /\ readerPc' = "idle"
    /\ readerFd' = nOpened'
    /\ reqPc' = "body"
    /\ UNCHANGED initIdx
    /\ UNCHANGED <<mRequesterQueue, mResponseSinks, convVars, requester, call, callPc,
                   callResult, response, wire, pending, alive, nQueued, destroyed, abortCause, dispatchHist, reqHist>>
    /\ UNCHANGED parseVars

\* getHostChannelPipe with the handle closed: join the reader thread if it is
\* joinable (join returns once readingLoop has returned), open the device,
\* start a reader on the new handle and go on to the init sequence
ReqPipeOpen ==
    /\ ~aborted
    /\ reqPc = "pipe"
    /\ mHostChannel = 0
    /\ mReaderJoinable => readerPc = "exited"
    /\ nOpened' = nOpened + 1
    /\ mHostChannel' = nOpened'
    /\ mReaderJoinable' = TRUE
    /\ readerPc' = "idle"
    /\ readerFd' = nOpened'
    /\ reqPc' = "init"
    /\ initIdx' = 1
    /\ UNCHANGED <<mRequesterQueue, mResponseSinks, convVars, requester, call, callPc,
                   callResult, response, wire, pending, alive, nQueued, destroyed, abortCause, dispatchHist, reqHist>>
    /\ UNCHANGED parseVars

\* getHostChannelPipe: mHostChannelFactory() returns an invalid handle:
\* LOG_ALWAYS_FATAL_IF(!mHostChannel.ok())
ReqPipeOpenFail ==
    /\ ~aborted
    /\ reqPc = "pipe"
    /\ mHostChannel = 0
    /\ mReaderJoinable => readerPc = "exited"
    /\ Abort("open")
    /\ UNCHANGED parseVars

\* initSequence: conversation(pipe, cmd, holds<OK>) for the next command
InitCall ==
    /\ ~aborted
    /\ reqPc = "init"
    /\ callPc = "none"
    /\ ConvArm("channel", 0 - initIdx)
    /\ UNCHANGED <<chanVars, reqPc, requester, initIdx, readerVars, envVars,
                   abortCause, dispatchHist, reqHist>>
    /\ UNCHANGED parseVars

\* initSequence: a null response returns false and getHostChannelPipe aborts
\* (LOG_ALWAYS_FATAL_IF(!mInitSequence(...))); after the last command the
\* pipe is returned to requestLoop
InitReturn ==
    /\ ~aborted
    /\ reqPc = "init"
    /\ callPc = "ret"
    /\ IF callResult = NoResp
         THEN Abort("init")
         ELSE /\ IF initIdx < InitLen
                   THEN /\ initIdx' = initIdx + 1
                        /\ UNCHANGED <<reqPc, initDone>>
                   ELSE /\ reqPc' = "body"
                        /\ initDone' = mHostChannel
                        /\ UNCHANGED initIdx
              /\ call' = NoCall
              /\ callPc' = "none"
              /\ callResult' = NoResp
              /\ UNCHANGED <<chanVars, convVars, requester, readerVars, envVars,
                             abortCause, dispatchHist, invLog, running,
                             outstanding, waited, resetCause>>
    /\ UNCHANGED parseVars

\* requestLoop enters requester(pipe): RadioVoice::setCallWaiting's closure
\* calls mAtConversation(requestPipe, request, isOK)
ClosureConvCall ==
    /\ ~aborted
    /\ reqPc = "body"
    /\ requester.kind = "conv"
    /\ callPc = "none"
    /\ ConvArm("voice", requester.id)
    /\ invLog' = Append(invLog, requester.id)
    /\ running' = running \cup {requester.id}
    /\ UNCHANGED <<chanVars, reqPc, requester, initIdx, readerVars, envVars,
                   abortCause, dispatchHist, outstanding, waited, resetCause, initDone>>
    /\ UNCHANGED parseVars

\* RadioVoice::setCallWaiting's closure returns status != INTERNAL_ERR, and
\* requestLoop resets mHostChannel when that is false
ClosureConvReturn ==
    /\ ~aborted
    /\ reqPc = "body"
    /\ requester.kind = "conv"
    /\ callPc = "ret"
    /\ IF callResult = NoResp
         THEN mHostChannel' = 0 /\ resetCause' = call.end
         ELSE UNCHANGED <<mHostChannel, resetCause>>
    /\ running' = running \ {requester.id}
    /\ reqPc' = "get"
    /\ call' = NoCall
    /\ callPc' = "none"
    /\ callResult' = NoResp
    /\ UNCHANGED <<mRequesterQueue, mResponseSinks, mReaderJoinable, convVars,
                   requester, initIdx, readerVars, envVars, abortCause, dispatchHist,
                   invLog, outstanding, waited, initDone>>
    /\ UNCHANGED parseVars

\* RadioVoice::acceptCall's closure: requestPipe(atCmds::acceptCall), whose
\* result is dropped; the response is reported and the closure returns true
ClosureFire ==
    /\ ~aborted
    /\ reqPc = "body"
    /\ requester.kind = "fire"
    /\ \/ Transmit(requester.id)
       \/ UNCHANGED <<pending, outstanding>>
    /\ invLog' = Append(invLog, requester.id)
    /\ reqPc' = "get"
    /\ UNCHANGED <<chanVars, convVars, requester, initIdx, call, callPc, callResult,
                   readerVars, wire, alive, nQueued, nOpened, destroyed,
                   abortCause, dispatchHist, running, waited, resetCause, initDone>>
    /\ UNCHANGED parseVars

(***************************************************************************)
(* The reader worker: AtChannel::readingLoop.                              *)
(***************************************************************************)
\* receiveResponses: the reader enters ::read(hostChannelFd, ...).  On a
\* handle the request worker has closed, read fails (EBADF), receiveResponses
\* returns false and readingLoop ends in LOG_ALWAYS_FATAL.
ReaderEnterRead ==
    /\ ~aborted
    /\ readerPc = "idle"
    /\ IF readerFd = mHostChannel
         THEN /\ readerPc' = "inRead"
              /\ response' = NoResp
              /\ claimedBy' = {}
              /\ sinkCalls' = ZeroCalls
              /\ unsolCalls' = ZeroCalls
              /\ sinksAtLock' = <<>>
              /\ UNCHANGED <<chanVars, convVars, reqVars, readerFd, envVars,
                             abortCause, reqHist>>
         ELSE Abort("read")
    /\ UNCHANGED parseVars

\* a ::read on the handle issued while the reader worker is still inside
\* broadcastResponse, that is from a second thread
ReaderReadWhileBusy ==
    /\ ~aborted
    /\ readerPc \in {"inRead", "sinks"}
    /\ wire # <<>>
    /\ response' = Head(wire)
    /\ wire' = Tail(wire)
    /\ readerPc' = "send"
    /\ outstanding' = outstanding \ {Head(wire).req}
    /\ UNCHANGED <<chanVars, convVars, reqVars, readerFd, pending, alive, nQueued,
                   nOpened, destroyed, abortCause, dispatchHist, invLog, running,
                   waited, resetCause, initDone>>
    /\ UNCHANGED parseVars

\* ::read returns the bytes of the next message; receiveOneResponse parses
\* them into a response (the request it answers has now been received)
ReaderRead ==
    /\ ~aborted
    /\ readerPc = "inRead"
    /\ wire # <<>>
    /\ response' = Head(wire)
    /\ wire' = Tail(wire)
    /\ readerPc' = "send"
    /\ outstanding' = outstanding \ {Head(wire).req}
    /\ UNCHANGED <<chanVars, convVars, reqVars, readerFd, pending, alive, nQueued,
                   nOpened, destroyed, abortCause, dispatchHist, invLog, running,
                   waited, resetCause, initDone>>
    /\ UNCHANGED parseVars

\* a send that fulfils the promise and reports the claim but leaves mFilter
\* set
ConvSendKeepsArmed(st, r) ==
    IF st.filter # NoFilter /\ Matches(st.filter, r)
      THEN [filter |-> st.filter, promise |-> r, claimed |-> TRUE]
      ELSE [filter |-> st.filter, promise |-> st.promise, claimed |-> FALSE]

\* Conversation::send as a state update: st carries mFilter and mSink of the
\* instance; a claim disarms the filter and fulfils the promise
ConvSend(st, r) ==
    IF st.filter # NoFilter /\ Matches(st.filter, r)
      THEN [filter |-> NoFilter, promise |-> r, claimed |-> TRUE]
      ELSE [filter |-> st.filter, promise |-> st.promise, claimed |-> FALSE]

\* broadcastResponse, first statement: mConversation.send(response); the
\* result of send is not used
ReaderConvSend ==
    /\ ~aborted
    /\ readerPc = "send"
    /\ LET st == ConvSend([filter |-> mFilter["channel"],
                           promise |-> mSink["channel"]], response)
       IN /\ mFilter' = [mFilter EXCEPT !["channel"] = st.filter]
          /\ mSink' = [mSink EXCEPT !["channel"] = st.promise]
          /\ claimedBy' = IF st.claimed THEN {"channel"} ELSE {}
    /\ readerPc' = "sinks"
    /\ UNCHANGED <<chanVars, reqVars, readerFd, response, envVars, abortCause,
                   sinkCalls, unsolCalls, sinksAtLock, reqHist>>
    /\ UNCHANGED parseVars

\* One ResponseSink closure invoked by remove_if (main's addResponseSink):
\* when the handler is gone the closure returns false and is removed;
\* otherwise it runs the handler's atResponseSink and is kept.
\* RadioVoice::atResponseSink: if (!mAtConversation.send(response))
\* handleUnsolicited(...); ImsMedia::atResponseSink: empty.
CallSink(s, b, r) ==
    LET called == [b EXCEPT !.calls[s] = @ + 1]
    IN IF ~alive[s] THEN called
       ELSE IF s = "voice"
         THEN LET st == ConvSend([filter |-> b.filter, promise |-> b.promise], r)
              IN [called EXCEPT !.filter = st.filter,
                                !.promise = st.promise,
                                !.claimed = IF st.claimed THEN @ \cup {s} ELSE @,
                                !.unsol[s] = IF st.claimed THEN @ ELSE @ + 1,
                                !.kept = Append(@, s)]
         ELSE [called EXCEPT !.kept = Append(@, s)]

\* an erase-while-iterating loop: after a sink is removed the element that
\* follows it is stepped over
RECURSIVE RemoveIfSkipping(_, _, _)
RemoveIfSkipping(sinks, b, r) ==
    IF sinks = <<>> THEN b
    ELSE LET b1 == CallSink(Head(sinks), b, r)
             removed == Len(b1.kept) = Len(b.kept)
         IN IF removed /\ Len(sinks) > 1
              THEN RemoveIfSkipping(Tail(Tail(sinks)), b1, r)
              ELSE RemoveIfSkipping(Tail(sinks), b1, r)

\* std::remove_if over mResponseSinks: the predicate is applied to every
\* element once, in order
RECURSIVE RemoveIf(_, _, _)
RemoveIf(sinks, b, r) ==
    IF sinks = <<>> THEN b
    ELSE RemoveIf(Tail(sinks), CallSink(Head(sinks), b, r), r)

\* the fan-out of broadcastResponse over the sinks given: remove_if, then
\* erase of the removed tail
FanOut(sinks) ==
    LET b0 == [filter |-> mFilter["voice"], promise |-> mSink["voice"],
               calls |-> ZeroCalls, unsol |-> ZeroCalls, claimed |-> claimedBy,
               kept |-> <<>>]
        b == RemoveIf(sinks, b0, response)
    IN /\ mFilter' = [mFilter EXCEPT !["voice"] = b.filter]
       /\ mSink' = [mSink EXCEPT !["voice"] = b.promise]
       /\ sinkCalls' = b.calls
       /\ unsolCalls' = b.unsol
       /\ claimedBy' = b.claimed
       /\ mResponseSinks' = b.kept
       /\ sinksAtLock' = mResponseSinks
       /\ readerPc' = "idle"
       /\ UNCHANGED <<mRequesterQueue, mHostChannel, mReaderJoinable, reqVars,
                      readerFd, response, envVars, abortCause, reqHist>>

\* broadcastResponse, the rest: under mResponseSinksMtx every sink is handed
\* the response, whether or not mConversation.send claimed it
ReaderBroadcastSinks ==
    /\ ~aborted
    /\ readerPc = "sinks"
    /\ FanOut(mResponseSinks)
    /\ UNCHANGED parseVars

(***************************************************************************)
(* The Channel's specification.                                            *)
(***************************************************************************)
RequestWorker ==
    \/ ReqGet \/ ReqPipeReady \/ ReqPipeOpen \/ ReqPipeOpenFail
    \/ InitCall \/ InitReturn
    \/ ClosureConvCall \/ ClosureConvReturn \/ ClosureFire
    \/ ConvWrite \/ ConvReady \/ ConvTimeout \/ ConvDisarm

ReaderWorker ==
    \/ ReaderEnterRead \/ ReaderRead \/ ReaderConvSend \/ ReaderBroadcastSinks

Environment ==
    \/ \E k \in Kinds : QueueRequester(k)
    \/ \E s \in Sinks : AddResponseSink(s)
    \/ \E s \in Sinks : ReleaseHandler(s)
    \/ ModemReply
    \/ ModemUnsol

Next == RequestWorker \/ ReaderWorker \/ Environment

Spec == Init /\ [][Next]_vars

\* the two workers are threads the scheduler runs whenever they can take a
\* step; nothing is assumed of the modem or the callers
FairSpec == Spec /\ WF_vars(RequestWorker) /\ WF_vars(ReaderWorker)

(***************************************************************************)
(* The line parser (AtResponse.cpp).  A span of bytes is a sequence of     *)
(* one-character strings; positions are counted from 0 as in the code.     *)
(***************************************************************************)
kCR == "\r"
krOKr == <<"\r", "O", "K", "\r">>
kRING == <<"R", "I", "N", "G", "\r">>
kCMT == <<"+", "C", "M", "T", ":">>
kCDS == <<"+", "C", "D", "S", ":">>
kSmsPrompt == <<">", " ", "\r">>
kOKr == <<"O", "K", "\r">>
kERRORr == <<"E", "R", "R", "O", "R", "\r">>

RegistryLines == {
    <<"+", "C", "S", "Q", ":", "1", ",", "2", "\r">>,
    <<"+", "C", "R", "E", "G", ":", " ", "1", "\r">>,
    <<"+", "C", "L", "C", "C", ":", " ", "1", "\r", "O", "K", "\r">>,
    <<"+", "C", "F", "U", "N", "\r">>,
    <<"%", "C", "T", "Z", "V", ":", "1", "\r">>,
    <<"^", "M", "B", "A", "U", ":", "0", "\r">> }

OtherLines == {
    <<"R", "I", "N", "G", "\r">>,
    <<"O", "K", "\r">>,
    <<"E", "R", "R", "O", "R", "\r">>,
    <<">", " ", "\r">>,
    <<"1", "2", "\r", "O", "K", "\r">>,
    <<"+", "N", "O", "T", "R", "E", "A", "L", ":", "x", "\r">> }

\* complete +CMT: and +CDS: messages with a well-formed PDU
PduLines == {
    <<"+", "C", "M", "T", ":", " ", "2", "\r", "A", "B", "\r">>,
    <<"+", "C", "D", "S", ":", "2", "\r", "A", "B", "\r">> }

\* complete messages of recognized tags whose payload its parser rejects:
\* CFUN wants an integer, CSQ 12, 13, 14 or 22 values, CMT and CDS a PDU of
\* an even number of hex digits
RejectedLines == {
    <<"+", "C", "F", "U", "N", ":", "x", "\r">>,
    <<"+", "C", "S", "Q", ":", "1", ",", "2", "\r">>,
    <<"+", "C", "M", "T", ":", "2", "\r", "A", "B", "C", "\r">>,
    <<"+", "C", "D", "S", ":", "2", "\r", "A", "B", "C", "\r">> }

\* well-formed lines of registry entries: `name` is the entry the line is
\* for, its payload is one the payload parser of that entry makes its
\* variant of.  CPINR::id() is "CPIN"; its line is given with that tag and
\* with the tag CPINR
WellFormedLines == {
    [name |-> "CPIN",
     line |-> <<"+", "C", "P", "I", "N", ":", "R", "E", "A", "D", "Y", "\r">>],
    [name |-> "CPINR",
     line |-> <<"+", "C", "P", "I", "N", ":", "P", ",", "3", ",", "9", ",", "\r">>],
    [name |-> "CPINR",
     line |-> <<"+", "C", "P", "I", "N", "R", ":", "P", ",", "3", ",", "9", ",", "\r">>],
    [name |-> "CFUN",
     line |-> <<"+", "C", "F", "U", "N", ":", "1", "\r">>],
    [name |-> "CREG",
     line |-> <<"+", "C", "R", "E", "G", ":", " ", "1", "\r">>],
    [name |-> "CSQ",
     line |-> <<"+", "C", "S", "Q", ":", "1", ",", "1", ",", "1", ",", "1", ",", "1", ",", "1", ",", "1", ",", "1", ",", "1", ",", "1", ",", "1", ",", "1", "\r">>],
    [name |-> "CLCC",
     line |-> <<"+", "C", "L", "C", "C", ":", " ", "1", ",", "0", ",", "0", ",", "0", ",", "0", ",", "\"", "1", "\"", ",", "1", "\r", "O", "K", "\r">>],
    [name |-> "CUSATEND",
     line |-> <<"+", "C", "U", "S", "A", "T", "E", "N", "D", "\r">>],
    [name |-> "CCHC",
     line |-> <<"+", "C", "C", "H", "C", "\r">>],
    [name |-> "CmeError",
     line |-> <<"+", "C", "M", "E", " ", "E", "R", "R", "O", "R", ":", " ", "3", "\r">>],
    [name |-> "CmsError",
     line |-> <<"+", "C", "M", "S", " ", "E", "R", "R", "O", "R", ":", " ", "3", "\r">>],
    [name |-> "CTZV",
     line |-> <<"%", "C", "T", "Z", "V", ":", "1", "/", "1", "/", "1", ":", "1", ":", "1", ":", "1", "+", "1", ":", "0", ":", "\r">>],
    [name |-> "MBAU",
     line |-> <<"^", "M", "B", "A", "U", ":", "0", "\r">>] }

\* std::string_view::starts_with
starts_with(s, p) == Len(s) >= Len(p) /\ SubSeq(s, 1, Len(p)) = p

\* std::string_view::substr(pos, n) and substr(pos)
substr(s, pos, n) == SubSeq(s, pos + 1, pos + n)

substrFrom(s, pos) == SubSeq(s, pos + 1, Len(s))

\* the positions at or after `from` where `pat` occurs in s; str.find
\* returns the least of them, npos when there is none
findAll(s, pat, from) ==
    {i \in from..(Len(s) - Len(pat)) : SubSeq(s, i + 1, i + Len(pat)) = pat}

find(s, pat, from) ==
    CHOOSE i \in findAll(s, pat, from) : \A j \in findAll(s, pat, from) : i <= j

\* the characters of the spans with a code <= 0x20
Blank == {" ", "\t", "\n", "\r"}

RECURSIVE ltrim(_)
ltrim(s) == IF s # <<>> /\ Head(s) \in Blank THEN ltrim(Tail(s)) ELSE s

(***************************************************************************)
(* struct Parser (Parser.h, its methods in RadioData.cpp:500-611): mBegin  *)
(* is kept as an offset into str, `ok` is FALSE when mBegin is nullptr.    *)
(***************************************************************************)
Digits == {"0", "1", "2", "3", "4", "5", "6", "7", "8", "9"}

Parser(str) == [str |-> str, mBegin |-> 0, ok |-> TRUE]

PFail(p) == [p EXCEPT !.ok = FALSE]

matchSoFar(p) == p.ok

fullMatch(p) == p.ok /\ p.mBegin = Len(p.str)

hasMore(p) == p.ok /\ p.mBegin # Len(p.str)

\* Parser::consumed
consumed(p) == IF p.ok THEN p.mBegin ELSE 0 - 1

\* the offset of the first character at or after `from` that is not in S
RECURSIVE SkipWhile(_, _, _)
SkipWhile(str, from, S) ==
    IF from < Len(str) /\ str[from + 1] \in S
    THEN SkipWhile(str, from + 1, S)
    ELSE from

\* Parser::skip(char): ' ' skips every character <= ' ', any other
\* character must be the next one
skip(p, c) ==
    IF ~p.ok THEN p
    ELSE IF c = " "
    THEN [p EXCEPT !.mBegin = SkipWhile(p.str, p.mBegin, Blank)]
    ELSE IF p.mBegin # Len(p.str) /\ p.str[p.mBegin + 1] = c
    THEN [p EXCEPT !.mBegin = @ + 1]
    ELSE PFail(p)

\* Parser::skip(const char*): the rest of the span must start with s
skipStr(p, s) ==
    IF ~p.ok THEN p
    ELSE IF starts_with(substrFrom(p.str, p.mBegin), s)
    THEN [p EXCEPT !.mBegin = @ + Len(s)]
    ELSE PFail(p)

\* Parser::operator()(char*)
getChar(p) ==
    IF ~p.ok THEN p
    ELSE IF p.mBegin # Len(p.str) THEN [p EXCEPT !.mBegin = @ + 1]
    ELSE PFail(p)

\* Parser::operator()(int*, base 10): std::from_chars takes an optional '-'
\* and then the longest run of digits, which must not be empty
getInt(p) ==
    IF ~p.ok THEN p
    ELSE LET from == IF p.mBegin # Len(p.str) /\ p.str[p.mBegin + 1] = "-"
                     THEN p.mBegin + 1
                     ELSE p.mBegin
             to == SkipWhile(p.str, from, Digits)
         IN  IF to > from THEN [p EXCEPT !.mBegin = to] ELSE PFail(p)

\* the value std::from_chars stores for a run of decimal digits
RECURSIVE decimal(_)
decimal(s) ==
    IF s = <<>> THEN 0
    ELSE decimal(SubSeq(s, 1, Len(s) - 1)) * 10
         + (CHOOSE n \in 0..9 : ToString(n) = s[Len(s)])

\* Parser::operator()(int*): the int stored by a getInt that succeeds at p
intOf(p) ==
    LET txt == SubSeq(p.str, p.mBegin + 1, getInt(p).mBegin)
    IN  IF txt # <<>> /\ Head(txt) = "-"
        THEN 0 - decimal(Tail(txt))
        ELSE decimal(txt)

\* Parser::operator()(std::string_view*, char end): up to the first `end`,
\* which is consumed too
getStr(p, end) ==
    IF ~p.ok THEN p
    ELSE IF findAll(p.str, <<end>>, p.mBegin) = {} THEN PFail(p)
    ELSE [p EXCEPT !.mBegin = find(p.str, <<end>>, p.mBegin) + 1]

\* the string_view the call getStr(p, end) stores, p.ok and the call
\* succeeding
strOf(p, end) ==
    substr(p.str, p.mBegin, find(p.str, <<end>>, p.mBegin) - p.mBegin)

\* Parser::remaining: the rest of the span
remaining(p) == IF p.ok THEN substrFrom(p.str, p.mBegin) ELSE <<>>

\* hex2bin: fails on an odd length only
hex2bin(hex) == Len(hex) % 2 = 0

\* std::count(str.begin(), str.end(), c)
RECURSIVE count(_, _)
count(str, c) ==
    IF str = <<>> THEN 0
    ELSE (IF Head(str) = c THEN 1 ELSE 0) + count(Tail(str), c)

(***************************************************************************)
(* The payload parsers of the registry entries whose tags the spans below  *)
(* carry.  Each is TRUE when the parser makes its variant and FALSE when   *)
(* it returns makeParseErrorFor<T>().                                      *)
(***************************************************************************)
\* AtResponse::CPIN::parse
CPIN_parse(str) ==
    str \in { <<"R", "E", "A", "D", "Y">>,
              <<"S", "I", "M", " ", "P", "I", "N">>,
              <<"S", "I", "M", " ", "P", "U", "K">> }

\* AtResponse::CPINR::parse
CPINR_parse(str) ==
    fullMatch(skip(getInt(skip(getInt(getStr(Parser(str), ",")), ",")), ","))

\* AtResponse::CFUN::parse
CFUN_parse(str) == fullMatch(getInt(Parser(str)))

\* state,areaCode,cellId,networkType of AtResponse::CREG::parse, from p on
CREG_located(p) ==
    getInt(skip(getStr(skip(skip(getStr(skip(skip(getInt(p),
        ","), "\""), "\""), ","), "\""), "\""), ","))

\* AtResponse::CREG::parse
CREG_parse(str) ==
    CASE count(str, ",") = 0 -> fullMatch(getInt(Parser(str)))
      [] count(str, ",") = 1 ->
            fullMatch(getInt(skip(getInt(Parser(str)), ",")))
      [] count(str, ",") = 3 -> fullMatch(CREG_located(Parser(str)))
      [] count(str, ",") = 4 ->
            fullMatch(CREG_located(skip(getInt(Parser(str)), ",")))
      [] OTHER -> FALSE

\* int values[kMaxSize] of AtResponse::CSQ::parse
kMaxSize == 22

\* the loop of AtResponse::CSQ::parse: the parser and the number of values
\* read when the loop ends
RECURSIVE CSQ_values(_, _)
CSQ_values(p, n) ==
    IF hasMore(p) /\ n < kMaxSize
    THEN IF matchSoFar(getInt(skip(p, ",")))
         THEN CSQ_values(getInt(skip(p, ",")), n + 1)
         ELSE [p |-> getInt(skip(p, ",")), n |-> n]
    ELSE [p |-> p, n |-> n]

\* AtResponse::CSQ::parse
CSQ_parse(str) ==
    /\ matchSoFar(getInt(Parser(str)))
    /\ fullMatch(CSQ_values(getInt(Parser(str)), 1).p)
    /\ CSQ_values(getInt(Parser(str)), 1).n \in {12, 13, 14, 22}

\* one call of AtResponse::CLCC::parse:
\* +CLCC: <index>,<dir>,<state>,<mode>,<mpty>,<number>,<type>\r
CLCC_call(p) ==
    skip(getInt(getStr(skip(getInt(skip(getInt(skip(getInt(skip(getInt(
        skip(getInt(skip(skipStr(p, <<"+", "C", "L", "C", "C", ":">>), " ")),
        ",")), ",")), ",")), ",")), ","), ",")), kCR)

\* the loop of AtResponse::CLCC::parse
RECURSIVE CLCC_calls(_)
CLCC_calls(p) ==
    IF hasMore(p)
    THEN IF matchSoFar(CLCC_call(p)) THEN CLCC_calls(CLCC_call(p)) ELSE FALSE
    ELSE TRUE

\* AtResponse::CLCC::parse
CLCC_parse(str) == CLCC_calls(Parser(str))

\* the voice::Call AtResponse::CLCC::parse makes of the entry at p:
\* <index>,<dir>,<state>,<mode>,<mpty>,<number>,<type>; the number is the
\* text between the fifth and the sixth comma
CLCC_callAt(p) ==
    LET pIndex == skip(skipStr(p, <<"+", "C", "L", "C", "C", ":">>), " ")
        pDir == skip(getInt(pIndex), ",")
        pState == skip(getInt(pDir), ",")
        pMode == skip(getInt(pState), ",")
        pMpty == skip(getInt(pMode), ",")
        pNumber == skip(getInt(pMpty), ",")
        pType == getStr(pNumber, ",")
    IN  [state |-> intOf(pState),
         index |-> intOf(pIndex),
         toa |-> intOf(pType),
         isMpty |-> intOf(pMpty) # 0,
         isMT |-> intOf(pDir) # 0,
         isVoice |-> intOf(pMode) = 0,
         number |-> strOf(pNumber, ",")]

\* clcc.calls: the entries pushed by the loop of AtResponse::CLCC::parse
RECURSIVE CLCC_callList(_)
CLCC_callList(p) ==
    IF hasMore(p) /\ matchSoFar(CLCC_call(p))
    THEN <<CLCC_callAt(p)>> \o CLCC_callList(CLCC_call(p))
    ELSE <<>>

\* AtResponse::CTZV::parse up to the seconds: yy/mm/dd:hh:mm:ss
CTZV_time(p) ==
    getInt(skip(getInt(skip(getInt(skip(getInt(skip(getInt(skip(getInt(
        skip(p, " ")), "/")), "/")), ":")), ":")), ":"))

\* AtResponse::CTZV::parse
CTZV_parse(str) ==
    LET t == CTZV_time(Parser(str))
        p == skip(getChar(skip(getInt(getChar(t)), ":")), ":")
    IN  /\ matchSoFar(p)
        /\ t.str[t.mBegin + 1] \in {"+", "-"}

\* AtResponse::MBAU::parse: <STATUS>[,<KC>,<SRES>][,<CK>,<IK>,<RES/AUTS>]
MBAU_parse(str) ==
    LET s == skip(getInt(Parser(str)), ",")
    IN  CASE count(str, ",") = 0 -> fullMatch(getInt(Parser(str)))
          [] count(str, ",") = 2 ->
                /\ matchSoFar(getStr(s, ","))
                /\ hex2bin(strOf(s, ","))
                /\ hex2bin(remaining(getStr(s, ",")))
          [] count(str, ",") = 5 ->
                LET kc == s
                    sres == getStr(kc, ",")
                    ck == getStr(sres, ",")
                    ik == getStr(ck, ",")
                    rest == getStr(ik, ",")
                IN  /\ matchSoFar(rest)
                    /\ hex2bin(strOf(kc, ","))
                    /\ hex2bin(strOf(sres, ","))
                    /\ hex2bin(strOf(ck, ","))
                    /\ hex2bin(strOf(ik, ","))
                    /\ hex2bin(remaining(rest))
          [] OTHER -> FALSE

\* the payload parser of the entry `name` makes its variant from payload.
\* CUSATEND, CCHC, CmeError and CmsError make their variant of every
\* payload; the parsers of the remaining entries are not applied by any
\* span of the specifications below
Decodes(name, payload) ==
    CASE name = "CPIN" -> CPIN_parse(payload)
      [] name = "CPINR" -> CPINR_parse(payload)
      [] name = "CFUN" -> CFUN_parse(payload)
      [] name = "CREG" -> CREG_parse(payload)
      [] name = "CSQ" -> CSQ_parse(payload)
      [] name = "CLCC" -> CLCC_parse(payload)
      [] name = "CTZV" -> CTZV_parse(payload)
      [] name = "MBAU" -> MBAU_parse(payload)
      [] name \in {"CUSATEND", "CCHC", "CmeError", "CmsError"} -> TRUE

\* (*vp->parse)(payload): the payload parser of the entry runs on the
\* payload; the response it makes carries the entry's variant, or it is a
\* ParseError that carries the entry's id()
ValueParse(vp, payload) ==
    IF Decodes(vp.name, payload)
    THEN [id |-> vp.name, payload |-> payload]
    ELSE [id |-> "ParseError", payload |-> vp.cmd]

\* parseCmds from the entry i of the table on
RECURSIVE parseCmdsFrom(_, _, _, _)
parseCmdsFrom(str, table, i, maybeIncomplete) ==
    IF i > Len(table)
    THEN IF maybeIncomplete
         THEN [consumed |-> 0, response |-> nullptr]
         ELSE [consumed |-> 0 - 1, response |-> nullptr]
    ELSE LET vp == table[i]
             cmd == vp.cmd
             str1 == substrFrom(str, 1)
         IN  IF ~starts_with(str1, cmd)
             THEN parseCmdsFrom(str, table, i + 1, maybeIncomplete)
             ELSE IF Len(str1) <= Len(cmd)
             THEN parseCmdsFrom(str, table, i + 1, TRUE)
             ELSE IF str1[Len(cmd) + 1] \notin {":", kCR}
             THEN parseCmdsFrom(str, table, i + 1, maybeIncomplete)
             ELSE LET skipSize == IF str1[Len(cmd) + 1] = ":"
                                  THEN 1 + Len(cmd) + 1
                                  ELSE 1 + Len(cmd)
                      term == IF vp.multiline THEN krOKr ELSE <<kCR>>
                  IN  IF findAll(str, term, skipSize) = {}
                      THEN [consumed |-> 0, response |-> nullptr]
                      ELSE LET payloadEnd == find(str, term, skipSize)
                           IN  IF vp.multiline
                               THEN [consumed |-> payloadEnd + Len(krOKr),
                                     response |->
                                       ValueParse(vp,
                                           substr(str, 0, payloadEnd + 1))]
                               ELSE [consumed |-> payloadEnd + 1,
                                     response |->
                                       ValueParse(vp,
                                           ltrim(substr(str, skipSize,
                                               payloadEnd - skipSize)))]

\* a parseCmds that takes every span no entry matches for the beginning of
\* a tag
parseCmdsLenient(str, table) == parseCmdsFrom(str, table, 1, TRUE)

parseCmds(str, table) == parseCmdsFrom(str, table, 1, FALSE)

\* AtResponse::CMT::parse and AtResponse::CDS::parse, which differ in the
\* variant only: <int>\r<hex-pdu>\r
PduParse(name, str) ==
    LET hdr == skip(getInt(Parser(str)), kCR)
    IN  IF matchSoFar(hdr) /\ ~matchSoFar(getStr(hdr, kCR))
        THEN [consumed |-> 0, response |-> nullptr]
        ELSE IF matchSoFar(hdr) /\ hex2bin(strOf(hdr, kCR))
        THEN [consumed |-> consumed(getStr(hdr, kCR)),
              response |-> [id |-> name, payload |-> strOf(hdr, kCR)]]
        ELSE [consumed |-> 0 - 1,
              response |-> [id |-> "ParseError",
                            payload |-> IF name = "CMT"
                                        THEN substr(kCMT, 1, 3)
                                        ELSE substr(kCDS, 1, 3)]]

\* the +CMT: and +CDS: branches of AtResponse::parse
parsePdu(name, str) ==
    LET trimmed == ltrim(substrFrom(str, Len(kCMT)))
        r == PduParse(name, trimmed)
    IN  IF r.consumed > 0
        THEN [consumed |-> r.consumed + Len(str) - Len(trimmed),
              response |-> r.response]
        ELSE [consumed |-> r.consumed, response |-> nullptr]

\* AtResponse::parse
parse(str) ==
    IF starts_with(str, kRING)
    THEN [consumed |-> Len(kRING), response |-> [id |-> "RING", payload |-> <<>>]]
    ELSE IF starts_with(str, kCMT) THEN parsePdu("CMT", str)
    ELSE IF starts_with(str, kCDS) THEN parsePdu("CDS", str)
    ELSE IF Head(str) = "+" THEN parseCmds(str, plusValueParsers)
    ELSE IF Head(str) = "%" THEN parseCmds(str, percentValueParsers)
    ELSE IF Head(str) = "^" THEN parseCmds(str, caretValueParsers)
    ELSE IF starts_with(str, kSmsPrompt)
    THEN [consumed |-> Len(kSmsPrompt),
          response |-> [id |-> "SmsPrompt", payload |-> <<>>]]
    ELSE IF starts_with(str, kOKr)
    THEN [consumed |-> Len(kOKr), response |-> [id |-> "OK", payload |-> <<>>]]
    ELSE IF starts_with(str, kERRORr)
    THEN [consumed |-> Len(kERRORr),
          response |-> [id |-> "ERROR", payload |-> <<>>]]
    ELSE IF findAll(str, krOKr, 0) # {}
    THEN [consumed |-> find(str, krOKr, 0) + Len(krOKr),
          response |-> [id |-> "string",
                        payload |-> substr(str, 0, find(str, krOKr, 0))]]
    ELSE [consumed |-> 0, response |-> nullptr]

\* a call list of one call, as the modem sends it (terminated by OK) and
\* without the terminator
CallLines == {
    <<"+", "C", "L", "C", "C", ":", " ", "1", ",", "0", ",", "0", ",", "0", ",", "0", ",", "\"", "1", "2", "3", "4", "5", "\"", ",", "1", "2", "9", "\r", "O", "K", "\r">>,
    <<"+", "C", "L", "C", "C", ":", " ", "1", ",", "0", ",", "0", ",", "0", ",", "0", ",", "\"", "1", "2", "3", "4", "5", "\"", ",", "1", "2", "9", "\r">> }

\* the non-empty prefixes of a line
Prefixes(line) == {SubSeq(line, 1, n) : n \in 1..Len(line)}

\* the reader holds the first bytes of a line the modem sends
ParseInit ==
    /\ ChannelInit
    /\ pLine \in RegistryLines \cup OtherLines \cup PduLines \cup RejectedLines
                 \cup {e.line : e \in WellFormedLines} \cup CallLines
    /\ pIn \in Prefixes(pLine)
    /\ pPc = "ready"
    /\ pOut = Incomplete
    /\ StreamIdle
    /\ UnitIdle

\* receiveOneResponse applies the parser to the span
ParseSpan ==
    /\ pPc = "ready"
    /\ pOut' = parse(pIn)
    /\ pPc' = "done"
    /\ UNCHANGED <<pLine, pIn>>
    /\ UNCHANGED <<channelVars, streamVars, unitVars>>

\* nothing consumed: receiveResponsesImpl keeps the span, the next read
\* appends the bytes that arrived (here the next byte of the line) and the
\* parser is applied again
ParseMore ==
    /\ pPc = "done"
    /\ pOut.consumed = 0
    /\ Len(pIn) < Len(pLine)
    /\ pIn' = SubSeq(pLine, 1, Len(pIn) + 1)
    /\ pPc' = "ready"
    /\ UNCHANGED <<pLine, pOut>>
    /\ UNCHANGED <<channelVars, streamVars, unitVars>>

ParseNext == ParseSpan \/ ParseMore

ParseSpec == ParseInit /\ [][ParseNext]_vars

(***************************************************************************)
(* The reader worker on a stream of bytes: readingLoop, receiveResponses,  *)
(* receiveResponsesImpl and receiveOneResponse (AtChannel.cpp:103-231).    *)
(***************************************************************************)
\* complete messages the modem sends
StreamMessages == {
    <<"+", "C", "S", "Q", ":", "1", ",", "2", "\r">>,
    <<"O", "K", "\r">>,
    <<"R", "I", "N", "G", "\r">>,
    <<"+", "C", "L", "C", "C", ":", " ", "1", ",", "0", ",", "0", ",", "0", ",", "0", ",", "\"", "1", "\"", ",", "1", "\r", "O", "K", "\r">>,
    <<"+", "C", "M", "T", ":", " ", "2", "\r", "A", "B", "\r">>,
    <<"+", "C", "F", "U", "N", ":", "1", "\r">>,
    <<"\r", "\n">>,
    <<"1", "2", "\r", "O", "K", "\r">>,
    <<"+", "N", "O", "T", "R", "E", "A", "L", ":", "x", "\r">> }

\* what the modem sends in one run: one message or two in a row
Streams == StreamMessages \cup {a \o b : a, b \in StreamMessages}

\* receiveOneResponse once AtResponse::parse has returned r: `next` is the
\* number of bytes `begin` advances by, -1 for nullptr; `sent` holds the
\* response handed to broadcastResponse, if any
receiveOneParsed(r) ==
    [next |-> IF r.consumed >= 0 THEN r.consumed ELSE 0 - 1,
     sent |-> IF r.response # nullptr THEN <<r.response>> ELSE <<>>]

\* receiveOneResponse on the span [begin, end): one leading CR or LF is
\* skipped, anything else is parsed
receiveOneResponse(span) ==
    IF Head(span) \in {"\r", "\n"}
    THEN [next |-> 1, sent |-> <<>>]
    ELSE receiveOneParsed(parse(span))

\* a loop turn that puts the response of the bytes in front behind the
\* responses of the bytes that follow them
receiveResponsesTurnReversed(buf, begin, one, impl) ==
    IF one.next = 0
    THEN [ok |-> TRUE, unconsumed |-> substrFrom(buf, begin),
          sent |-> one.sent]
    ELSE IF one.next < 0
    THEN [ok |-> FALSE, unconsumed |-> <<>>, sent |-> one.sent]
    ELSE [impl[begin + one.next] EXCEPT !.sent = @ \o one.sent]

\* a loop turn that forgets the bytes of an incomplete message instead of
\* assigning them to `unconsumed`
receiveResponsesTurnDropping(buf, begin, one, impl) ==
    IF one.next = 0
    THEN [ok |-> TRUE, unconsumed |-> <<>>, sent |-> one.sent]
    ELSE IF one.next < 0
    THEN [ok |-> FALSE, unconsumed |-> <<>>, sent |-> one.sent]
    ELSE [impl[begin + one.next] EXCEPT !.sent = one.sent \o @]

\* one turn of the loop of receiveResponsesImpl at position `begin`, `one`
\* being what receiveOneResponse returned there and impl[b] the rest of
\* the loop from position b
receiveResponsesTurn(buf, begin, one, impl) ==
    IF one.next = 0
    THEN [ok |-> TRUE, unconsumed |-> substrFrom(buf, begin),
          sent |-> one.sent]
    ELSE IF one.next < 0
    THEN [ok |-> FALSE, unconsumed |-> <<>>, sent |-> one.sent]
    ELSE [impl[begin + one.next] EXCEPT !.sent = one.sent \o @]

\* receiveResponsesImpl on the bytes buf: its result, the bytes it leaves
\* in `unconsumed` and the responses dispatched, in order
receiveResponsesImpl(buf) ==
    LET impl[begin \in 0..Len(buf)] ==
            IF begin = Len(buf)
            THEN [ok |-> TRUE, unconsumed |-> <<>>, sent |-> <<>>]
            ELSE receiveResponsesTurn(
                     buf, begin,
                     receiveOneResponse(substrFrom(buf, begin)), impl)
    IN  impl[0]

\* the reader worker starts with an empty `unconsumed`
StreamInit ==
    /\ ChannelInit
    /\ ParseIdle
    /\ UnitIdle
    /\ stream \in Streams
    /\ nRead = 0
    /\ unconsumed = <<>>
    /\ dispatched = <<>>
    /\ rdPc = "read"

\* a readingLoop that logs the failure of receiveResponses and reads on
StreamParsedGoesOn(len, r) ==
    /\ nRead' = nRead + len
    /\ unconsumed' = r.unconsumed
    /\ dispatched' = dispatched \o r.sent
    /\ rdPc' = "read"

\* receiveResponses after receiveResponsesImpl returned r for a read of
\* len bytes: when r.ok is false readingLoop ends in LOG_ALWAYS_FATAL
StreamParsed(len, r) ==
    /\ nRead' = nRead + len
    /\ unconsumed' = r.unconsumed
    /\ dispatched' = dispatched \o r.sent
    /\ rdPc' = IF r.ok THEN "read" ELSE "aborted"

\* receiveResponses: ::read returns the next len bytes of the stream, they
\* are parsed together with the bytes kept in `unconsumed`
StreamReceive ==
    /\ rdPc = "read"
    /\ nRead < Len(stream)
    /\ \E len \in 1..(Len(stream) - nRead) :
          StreamParsed(len, receiveResponsesImpl(
              unconsumed \o SubSeq(stream, nRead + 1, nRead + len)))
    /\ UNCHANGED <<stream, channelVars, lineVars, unitVars>>

\* receiveResponses: ::read returns -1 with EINTR, or 0: nothing is parsed
\* and the loop goes on
StreamInterrupted ==
    /\ rdPc = "read"
    /\ UNCHANGED vars

StreamNext == StreamReceive \/ StreamInterrupted

StreamSpec == StreamInit /\ [][StreamNext]_vars

(***************************************************************************)
(* The teardown of the Channel: AtChannel::~AtChannel queues the empty     *)
(* Requester, joins the request thread and then joins the reader thread.   *)
(* A join is a wait: it returns once the thread's function has returned.   *)
(***************************************************************************)
\* ~AtChannel: mRequestThread.join() has returned and mReaderThread.join()
\* is called on a thread that was never started (no request was ever
\* queued): join throws std::system_error out of the destructor, which
\* ends in std::terminate
DestroyJoinUnstarted ==
    /\ ~aborted
    /\ destroyed
    /\ reqPc = "done"
    /\ ~mReaderJoinable
    /\ Abort("join")
    /\ UNCHANGED parseVars

\* the destructor
Destructor == Destroy \/ DestroyJoinUnstarted

\* both joins of the destructor have returned
DestructorReturned ==
    destroyed /\ reqPc = "done" /\ mReaderJoinable /\ readerPc = "exited"

TeardownNext == Next \/ Destructor

\* the workers are scheduled whenever they can take a step, and so is the
\* thread that runs the destructor once it has begun
TeardownSpec ==
    /\ Init
    /\ [][TeardownNext]_vars
    /\ WF_vars(RequestWorker)
    /\ WF_vars(ReaderWorker)
    /\ WF_vars(DestroyJoinUnstarted)

(***************************************************************************)
(* Claims about the Channel.                                               *)
(***************************************************************************)
\* broadcastResponse has finished with `response`
Dispatched == readerPc = "idle" /\ response # NoResp

\* C1: a response that satisfies the armed predicate is claimed by the
\* Conversation and is passed to no broadcast subscriber (no ResponseSink is
\* invoked with it).
C1_ClaimedNotBroadcast ==
    (Dispatched /\ claimedBy # {}) => \A s \in Sinks : sinkCalls[s] = 0

\* C2: a response that no armed predicate accepts (or that arrives with no
\* predicate armed) is passed to every subscriber registered when the
\* broadcast takes the list, exactly once, and to no other.
C2_UnclaimedBroadcastOnce ==
    (Dispatched /\ claimedBy = {})
        => \A s \in Sinks :
              sinkCalls[s] = IF s \in Range(sinksAtLock) THEN 1 ELSE 0

\* C2's case: a RING was dispatched to two subscribers while the handler's
\* Conversation was armed with a predicate it does not satisfy.
C2_Witness ==
    /\ Dispatched
    /\ response.kind = "RING"
    /\ claimedBy = {}
    /\ Len(sinksAtLock) = 2
    /\ mFilter["voice"] # NoFilter
    /\ callPc = "wait"

\* C3: when send claimed a response for the armed wait (the promise of this
\* arming is fulfilled), the wait returns exactly that response.
C3_ClaimedIsReturned ==
    (callPc = "ret" /\ mSink[call.conv] # NoResp) => callResult = mSink[call.conv]

\* C4: a wait on the handler's Conversation never returns a response the
\* modem produced for an earlier request whose wait on that Conversation
\* has ended.
C4_NoLateResponse ==
    (callPc = "ret" /\ call.conv = "voice" /\ callResult # NoResp)
        => callResult.req \notin (waited["voice"] \ {call.req})

\* C5: at most one transmitted request is outstanding (neither its response
\* received nor its wait timed out); no further request is transmitted
\* before that.
C5_OneInFlight == Cardinality(outstanding) <= 1

\* C6: closures are invoked in exactly the order queueRequester enqueued
\* them (ids are enqueue positions): none overtakes, none is skipped.
C6_Fifo == invLog = [i \in 1..Len(invLog) |-> i]

\* C6's case: two closures were invoked while a third was queued behind.
C6_Witness == Len(invLog) = 2 /\ Len(mRequesterQueue) = 1 /\ ~aborted

\* C7: at most one request closure is executing at any instant.
C7_OneClosure == Cardinality(running) <= 1

\* C7's case: a closure is executing while two more, queued by callers in
\* the meantime, wait in the queue.
C7_Witness == running # {} /\ Len(mRequesterQueue) = 2

\* the handle was closed because a closure reported failure and the next
\* request has been dequeued
ReconnectNeeded == reqPc = "pipe" /\ mHostChannel = 0 /\ resetCause # "none"

\* C8: after a closure failure the next queued request reopens the device,
\* re-runs the init sequence and has its closure invoked, without an abort.
C8_Reconnects == ReconnectNeeded ~> (reqPc = "body" /\ ~aborted)

\* C9: a timed-out wait is not fatal: the process is not aborted as a
\* consequence of the timeout (here: by the reader's read on the handle that
\* was closed because the closure reported the timeout).
C9_TimeoutNotFatal == resetCause = "timeout" => abortCause # "read"

(***************************************************************************)
(* Claims about the line parser.                                           *)
(***************************************************************************)
\* C10: every strict non-empty prefix of a well-formed line of a registered
\* tag yields "incomplete" (0 consumed, no response) from the line parser,
\* never a terminal (-1) result
C10_PrefixIncomplete ==
    (pPc = "done" /\ pLine \in RegistryLines /\ Len(pIn) < Len(pLine))
        => pOut = Incomplete

(***************************************************************************)
(* Claims about the reader and the byte stream.                            *)
(***************************************************************************)
\* the reader has taken the whole stream, or has aborted the process
StreamEnded == rdPc = "aborted" \/ nRead = Len(stream)

\* the run has ended as a run ends that yields the outcome r
SameOutcome(r) ==
    /\ dispatched = r.sent
    /\ (rdPc = "read") = r.ok
    /\ rdPc = "read" => unconsumed = r.unconsumed

\* C11: however the byte stream is split into reads, the reader dispatches
\* the same responses in the same order, and ends fatally or not, exactly as
\* when the whole stream arrives in a single read.
C11_ChunkingIndependent ==
    StreamEnded => SameOutcome(receiveResponsesImpl(stream))

\* the messages of StreamMessages whose tag is flagged multi-line
MultilineMessages ==
    { m \in StreamMessages :
        \E i \in 1..Len(plusValueParsers) :
            /\ plusValueParsers[i].multiline
            /\ starts_with(m, <<"+">> \o plusValueParsers[i].cmd \o <<":">>) }

\* the bytes of the tag of a multi-line message, up to its ':'
TagLen(m) == find(m, <<":">>, 0) + 1

\* a read that ends within the multi-line message m at the head of the
\* stream, everything before it being retained, and that delivers at least
\* the whole tag
ReadWithin(m) ==
    /\ starts_with(stream, m)
    /\ rdPc = "read"
    /\ unconsumed = SubSeq(stream, 1, nRead)
    /\ nRead' > nRead
    /\ nRead' >= TagLen(m)
    /\ nRead' <= Len(m)

\* what such a read does when one parse of the whole message yields r:
\* nothing but retaining the bytes until the terminator is complete, then
\* one response that consumes the message up to and including the terminator
MultilineOutcome(m, r) ==
    /\ rdPc' = "read"
    /\ IF nRead' < Len(m)
       THEN /\ dispatched' = <<>>
            /\ unconsumed' = SubSeq(stream, 1, nRead')
       ELSE /\ dispatched' = <<r.response>>
            /\ r.response.id # "ParseError"
            /\ r.consumed = Len(m)
            /\ unconsumed' = <<>>

C13_ResultShape ==
    pPc = "done" =>
        \/ /\ pOut.consumed > 0
           /\ pOut.consumed <= Len(pIn)
           /\ pOut.response # nullptr
        \/ pOut = Incomplete
        \/ /\ pOut.consumed = 0 - 1
           /\ pOut.response.id = "ParseError"

\* C14: a complete message of a recognized tag (a registry tag, +CMT or
\* +CDS) whose payload fails its sub-parse yields a ParseError response
\* carrying that tag, and receiveOneResponse returns a position to go on
\* from, so that the reader keeps running and the process is not aborted.
C14_RejectNotFatal ==
    (pPc = "done" /\ pLine \in RejectedLines /\ pIn = pLine) =>
        /\ pOut.response.id = "ParseError"
        /\ starts_with(substrFrom(pIn, 1), pOut.response.payload)
        /\ receiveOneParsed(pOut).next > 0

\* the complete lines that begin with a sigil and carry a tag of no
\* registry entry
UnregisteredLines ==
    { l \in OtherLines : Head(l) \in {"+", "%", "^"} }

\* C15: a complete line that begins with a sigil but whose tag matches no
\* registry entry ("+NOTREAL:x\r") yields the terminal result -1 from the
\* line parser, not "incomplete".
C15_UnknownTagTerminal ==
    (pPc = "done" /\ pIn \in UnregisteredLines) =>
        (pOut.consumed = 0 - 1 /\ pOut # Incomplete)

\* the line "+NOTREAL:x\r" has been parsed whole
C15_Witness ==
    /\ pPc = "done"
    /\ pIn = <<"+", "N", "O", "T", "R", "E", "A", "L", ":", "x", "\r">>
    /\ pIn \in UnregisteredLines

\* C16: for every registry entry, a well-formed line carrying that entry's
\* tag is dispatched to that entry's own payload parser and yields that
\* entry's variant, the whole line being consumed.
C16_OwnParser ==
    \A e \in WellFormedLines :
        (pPc = "done" /\ pIn = e.line) =>
            (pOut.consumed = Len(e.line) /\ pOut.response.id = e.name)

(***************************************************************************)
(* Claims about the ends of a Conversation call.                           *)
(***************************************************************************)
\* the Conversation call has returned because the write failed
WriteFailed == callPc = "ret" /\ call.end = "write"

\* C17: when transmitting the request fails, the Conversation call returns
\* "no response" at once, without entering the wait, and leaves the
\* Conversation disarmed.
C17_WriteFailure ==
    /\ [](WriteFailed =>
            (callResult = NoResp /\ mFilter[call.conv] = NoFilter))
    /\ [][(call'.end = "write" /\ call.end # "write") =>
            (callPc = "armed" /\ callPc' = "ret")]_vars

\* a closure's call on the handler's Conversation has returned on a failed
\* write
C17_Witness == WriteFailed /\ call.conv = "voice"

\* the Conversation call has returned because the wait timed out
TimedOut == callPc = "ret" /\ call.end = "timeout"

\* the reader's step that offers `response` to Conversation c through send:
\* the Channel's own Conversation in broadcastResponse, the handler's in the
\* fan-out over the sinks
DeliveredTo(c) ==
    IF c = "channel"
    THEN readerPc = "send" /\ readerPc' = "sinks"
    ELSE readerPc = "sinks" /\ readerPc' = "idle"

\* C18: when the wait times out the Conversation call returns "no
\* response" and the Conversation is disarmed by the time the call returns,
\* so a response delivered to it after the return is not claimed.
C18_TimeoutDisarms ==
    /\ [](TimedOut =>
            (callResult = NoResp /\ mFilter[call.conv] = NoFilter))
    /\ [][(TimedOut /\ DeliveredTo(call.conv)) =>
            call.conv \notin claimedBy']_vars

\* the modem's reply to the timed-out request of a closure has been handed
\* to the handler's sink after the call returned, and was not claimed
C18_Witness ==
    /\ TimedOut
    /\ call.conv = "voice"
    /\ Dispatched
    /\ response = [kind |-> "OK", req |-> call.req]
    /\ sinkCalls["voice"] > 0
    /\ unsolCalls["voice"] > 0
    /\ "voice" \notin claimedBy

\* a closure is blocked in the wait of its Conversation call
ClosureWaiting == callPc = "wait" /\ call.conv = "voice"

\* C19: every Conversation wait terminates, the modem sending anything or
\* not: the call returns to its caller, and a closure blocked in a wait gives
\* control back to the request worker, which is again at getRequester to
\* dequeue the next closure.
C19_WaitTerminates ==
    /\ (callPc = "wait") ~> (callPc = "ret")
    /\ ClosureWaiting ~> (reqPc = "get")

\* a closure is blocked in its wait with nothing on the wire and the next
\* closure queued behind it
C19_Witness ==
    /\ ClosureWaiting
    /\ wire = <<>>
    /\ mRequesterQueue # <<>>

(***************************************************************************)
(* Claims about the initialization of the handle.                          *)
(***************************************************************************)
\* mInitSequence has got no OK for one of its commands and is about to
\* return false
InitFailed == reqPc = "init" /\ callPc = "ret" /\ callResult = NoResp

\* the handle is open and mInitSequence has returned true on it
InitCompleted == mHostChannel # 0 /\ initDone = mHostChannel

\* C20: a closure is invoked only with a handle on which the initialization
\* sequence has completed successfully since the handle was opened or
\* reopened; when the initialization fails the request worker invokes no
\* closure and its next step aborts the process.
C20_InitBeforeClosure ==
    /\ [][Len(invLog') > Len(invLog) => InitCompleted]_vars
    /\ [][InitFailed =>
            (invLog' = invLog /\ (reqPc' # reqPc => abortCause' = "init"))]_vars

\* a closure has been invoked and holds the pipe of the open, initialized
\* handle
C20_Witness ==
    /\ reqPc = "body"
    /\ running # {}
    /\ invLog # <<>>
    /\ InitCompleted

(***************************************************************************)
(* Claims about a terminal failure of the line parser.                     *)
(***************************************************************************)
\* the line parser's result p for the bytes of the stream from some offset
\* up to what has been read is -1, r being what the reader does with the
\* bytes before them: it takes them whole and dispatches what `dispatched`
\* holds
FailedAt(r, p) ==
    /\ p.consumed = 0 - 1
    /\ r.ok
    /\ r.unconsumed = <<>>
    /\ r.sent = dispatched

\* the outcome of the read that hands buf to receiveResponsesImpl, which
\* yields r: when the parser reported -1 the process is aborted with nothing
\* dispatched but what r dispatched before the failure
FatalOutcome(r) ==
    ~r.ok => (rdPc' = "aborted" /\ dispatched' = dispatched \o r.sent)

\* C21: when the line parser reports the terminal failure -1 for the
\* buffered bytes the reader stops parsing and the process is aborted; what
\* has been dispatched was parsed from the bytes before the failing ones, and
\* nothing is dispatched afterwards.
C21_TerminalFailureFatal ==
    /\ [](rdPc = "aborted" =>
            \E k \in 0..(nRead - 1) :
                FailedAt(receiveResponsesImpl(SubSeq(stream, 1, k)),
                         parse(SubSeq(stream, k + 1, nRead))))
    /\ [][(rdPc = "read" /\ nRead' > nRead) =>
            FatalOutcome(receiveResponsesImpl(
                unconsumed \o SubSeq(stream, nRead + 1, nRead')))]_vars
    /\ [][rdPc = "aborted" =>
            (rdPc' = "aborted" /\ dispatched' = dispatched)]_vars

\* the whole of "+NOTREAL:x\rOK\r" has been read: the process is aborted
\* and the OK that follows the failing line has not been dispatched
C21_Witness ==
    /\ rdPc = "aborted"
    /\ stream = <<"+", "N", "O", "T", "R", "E", "A", "L", ":", "x", "\r",
                  "O", "K", "\r">>
    /\ nRead = Len(stream)
    /\ dispatched = <<>>

(***************************************************************************)
(* Claims about the teardown and the workers.                              *)
(***************************************************************************)
\* C22: teardown terminates: once the sentinel is queued, the closures
\* queued before it are run, the request worker and the reader worker both
\* exit and the destructor's two joins return.
C22_TeardownTerminates == destroyed ~> DestructorReturned

\* the request worker is running: started and not returned from requestLoop
RequestWorkerRuns == reqPc \notin {"done", "aborted"}

\* a reader worker is running: started and not returned from readingLoop
ReaderWorkerRuns == readerPc \notin {"none", "exited", "aborted"}

\* C23: from construction until destruction the Channel has exactly one
\* request worker and exactly one reader worker, both started at
\* construction.
C23_OneOfEachWorker ==
    (~aborted /\ ~destroyed) => (RequestWorkerRuns /\ ReaderWorkerRuns)

\* the step starts a reader thread: readingLoop(hostChannelFd) on a handle
\* just opened
ReaderStarted == readerFd' # readerFd /\ readerFd' # 0

\* the request worker runs from construction on, and a reader worker is
\* started only by the request worker opening the handle and only while no
\* reader worker is running
C23_OneWorkerAtATime ==
    /\ []((~aborted /\ ~destroyed) => RequestWorkerRuns)
    /\ [][ReaderStarted =>
            (reqPc = "pipe" /\ mHostChannel = 0 /\ ~ReaderWorkerRuns)]_vars

\* both workers are running, the reader on the handle the request worker
\* opened for a request
C23_Witness ==
    /\ RequestWorkerRuns
    /\ ReaderWorkerRuns
    /\ readerFd = mHostChannel
    /\ reqPc = "body"

\* the step writes a request to the handle
Writes == Len(pending') > Len(pending)

\* the step completes a ::read of bytes from the handle
Reads == Len(wire') < Len(wire) /\ ~aborted'

\* C24: while the handle is valid it is written only by the request worker
\* (inside the init sequence or a closure) and read only by the reader
\* worker, whose one ::read is on that handle; no two reads and no two
\* writes are in progress at once.
C24_ExclusiveAccess ==
    /\ [][Writes => (RequestWorkerRuns /\ reqPc \in {"init", "body"}
                        /\ mHostChannel # 0)]_vars
    /\ [][Reads => readerPc = "inRead"]_vars
    /\ []((ReaderWorkerRuns /\ mHostChannel # 0) => readerFd = mHostChannel)

\* the reader worker is inside ::read on the valid handle while the request
\* worker has written a request to it and waits for the answer
C24_Witness ==
    /\ mHostChannel # 0
    /\ readerPc = "inRead"
    /\ readerFd = mHostChannel
    /\ callPc = "wait"
    /\ pending # <<>>

(***************************************************************************)
(* Claims about Conversation::send.                                        *)
(***************************************************************************)
\* the predicate of Conversation c is armed and accepts `response`
Accepts(c) == mFilter[c] # NoFilter /\ Matches(mFilter[c], response)

\* C25: Conversation::send reports "claimed" if and only if a predicate is
\* armed and accepts the response; on a claim it disarms the predicate and
\* fulfils the result slot, which is empty while the predicate is armed, so
\* once per arming; otherwise it leaves the predicate and the slot as they
\* are.
C25_SendContract ==
    /\ [][DeliveredTo("channel") =>
            /\ ("channel" \in claimedBy') = Accepts("channel")
            /\ Accepts("channel") =>
                  /\ mFilter'["channel"] = NoFilter
                  /\ mSink'["channel"] = response
            /\ ~Accepts("channel") => (mFilter' = mFilter /\ mSink' = mSink)]_vars
    /\ [](\A c \in Convs : mFilter[c] # NoFilter => mSink[c] = NoResp)

\* mConversation.send has just claimed the response: predicate disarmed,
\* slot fulfilled with it
C25_Witness ==
    /\ readerPc = "sinks"
    /\ claimedBy = {"channel"}
    /\ mFilter["channel"] = NoFilter
    /\ mSink["channel"] = response
    /\ response # NoResp

(***************************************************************************)
(* Claims about I/O errors on the handle.                                  *)
(***************************************************************************)
\* C26: an I/O error on the handle, a read error seen by the reader worker
\* included, closes the handle and is recovered by the reopen of the next
\* request; the process is not aborted because ::read failed.
C26_IoErrorNotFatal == abortCause # "read"

(***************************************************************************)
(* The handlers behind the response sinks.  main registers one closure per *)
(* handler, once; the reader worker parses a line and broadcastResponse    *)
(* hands the response to the closures.  AtChannel's mConversation is not   *)
(* armed here (mFilter["channel"] = NoFilter throughout).                  *)
(***************************************************************************)
\* the responses broadcast in one run
MaxLines == 2

\* three of the handlers main registers
Handlers == {"radioNetwork", "radioVoice", "radioSim"}

\* lines the modem sends
NetLines == {
    <<"+", "C", "R", "E", "G", ":", " ", "2", "\r">>,
    <<"+", "C", "R", "E", "G", ":", " ", "1", "\r">>,
    <<"+", "C", "R", "E", "G", ":", " ", "0", ",", "5", "\r">>,
    <<"+", "C", "S", "Q", ":", "1", ",", "2", "\r">> }

\* creg.state of AtResponse::CREG::parse: the first int when the payload has
\* no or three commas, the second when it has one or four
CREG_state(str) ==
    IF count(str, ",") \in {0, 3}
    THEN intOf(Parser(str))
    ELSE intOf(skip(getInt(Parser(str)), ","))

\* the closures registered, in registration order, each handler once
Registrations ==
    {s \in UNION {[1..n -> Handlers] : n \in 0..Cardinality(Handlers)} :
        \A i, j \in DOMAIN s : s[i] = s[j] => i = j}

NetInit ==
    /\ ChannelInit
    /\ StreamIdle
    /\ IdIdle
    /\ LockIdle
    /\ HandlerIdle
    /\ pLine \in NetLines
    /\ pIn \in Prefixes(pLine)
    /\ pPc = "ready"
    /\ pOut = Incomplete
    /\ netResponseSinks \in Registrations
    /\ netAlive \in SUBSET Handlers
    /\ netCalls = [h \in Handlers |-> 0]
    /\ mCreg \in 0..2
    /\ cregUpdates = 0
    /\ netOrder = <<>>
    /\ netSeen = 0

\* a handleUnsolicited(CREG) that assigns mCreg only when the state changed
NetSinkChangedOnly(h, b, r) ==
    LET called == [b EXCEPT !.calls[h] = @ + 1, !.order = Append(@, h)]
    IN  IF h \notin netAlive THEN called
        ELSE IF h = "radioNetwork" /\ r.id = "CREG"
                /\ CREG_state(r.payload) # b.creg
        THEN [called EXCEPT !.kept = Append(@, h),
                            !.creg = CREG_state(r.payload),
                            !.updates = @ + 1]
        ELSE [called EXCEPT !.kept = Append(@, h)]

\* one closure of main's addResponseSink invoked by remove_if: when the
\* handler is gone it returns false and is removed; otherwise it runs the
\* handler's atResponseSink and is kept.  RadioNetwork::atResponseSink
\* visits the response first: handleUnsolicited(CREG) assigns mCreg.
NetSink(h, b, r) ==
    LET called == [b EXCEPT !.calls[h] = @ + 1, !.order = Append(@, h)]
    IN  IF h \notin netAlive THEN called
        ELSE IF h = "radioNetwork" /\ r.id = "CREG"
        THEN [called EXCEPT !.kept = Append(@, h),
                            !.creg = CREG_state(r.payload),
                            !.updates = @ + 1]
        ELSE [called EXCEPT !.kept = Append(@, h)]

\* an erase-while-iterating loop over the closures: after a closure is
\* removed the one that follows it is stepped over
RECURSIVE NetRemoveIfSkipping(_, _, _)
NetRemoveIfSkipping(sinks, b, r) ==
    IF sinks = <<>> THEN b
    ELSE LET b1 == NetSink(Head(sinks), b, r)
         IN  IF Len(b1.kept) = Len(b.kept) /\ Len(sinks) > 1
             THEN NetRemoveIfSkipping(Tail(Tail(sinks)), b1, r)
             ELSE NetRemoveIfSkipping(Tail(sinks), b1, r)

\* std::remove_if over the closures: the predicate is applied to each once,
\* in order, and the closures kept stay in their order
RECURSIVE NetRemoveIf(_, _, _)
NetRemoveIf(sinks, b, r) ==
    IF sinks = <<>> THEN b
    ELSE NetRemoveIf(Tail(sinks), NetSink(Head(sinks), b, r), r)

\* broadcastResponse for the response receiveOneResponse parsed:
\* mConversation.send (not armed: nothing happens), then remove_if and erase
\* under mResponseSinksMtx
NetBroadcast ==
    /\ pPc = "done"
    /\ pOut.response # nullptr
    /\ mFilter["channel"] = NoFilter
    /\ LET b == NetRemoveIf(netResponseSinks,
                            [kept |-> <<>>, calls |-> netCalls,
                             creg |-> mCreg, updates |-> cregUpdates,
                             order |-> <<>>],
                            pOut.response)
       IN  /\ netResponseSinks' = b.kept
           /\ netCalls' = b.calls
           /\ mCreg' = b.creg
           /\ cregUpdates' = b.updates
           /\ netOrder' = b.order
    /\ netSeen' = netSeen + 1
    /\ pPc' = "sent"
    /\ UNCHANGED <<pLine, pIn, pOut, netAlive>>
    /\ UNCHANGED <<channelVars, streamVars, idVars, lockVars, handlerVars>>

\* the reader worker goes on to the next line the modem sends
NetNextLine ==
    /\ pPc = "sent"
    /\ netSeen < MaxLines
    /\ pLine' \in NetLines
    /\ pIn' = pLine'
    /\ pPc' = "ready"
    /\ pOut' = Incomplete
    /\ UNCHANGED <<channelVars, streamVars, unitVars>>

\* a handler is destroyed: the weak_ptr of its closure expires
NetDetach ==
    /\ \E h \in netAlive : netAlive' = netAlive \ {h}
    /\ UNCHANGED <<netResponseSinks, netCalls, mCreg, cregUpdates, netOrder,
                   netSeen>>
    /\ UNCHANGED <<channelVars, lineVars, streamVars, idVars, lockVars,
                   handlerVars>>

NetNext ==
    ParseSpan \/ ParseMore \/ NetBroadcast \/ NetNextLine \/ NetDetach

NetworkSpec == NetInit /\ [][NetNext]_vars

(***************************************************************************)
(* Claims about the unsolicited registration report.                       *)
(***************************************************************************)
Creg2 == <<"+", "C", "R", "E", "G", ":", " ", "2", "\r">>

\* C27: when "+CREG: 2\r" arrives while no Conversation predicate is armed,
\* broadcastResponse invokes every registered closure once, and the network
\* handler (registered and alive) assigns its cached registration state from
\* it once: the state becomes 2 whatever it was.
C27_CregBroadcast ==
    [][(pLine = Creg2 /\ pPc = "done" /\ pPc' = "sent") =>
          /\ \A c \in Convs : mFilter[c] = NoFilter
          /\ \A h \in Handlers :
                netCalls'[h] = netCalls[h]
                    + (IF h \in Range(netResponseSinks) THEN 1 ELSE 0)
          /\ ("radioNetwork" \in Range(netResponseSinks) \cap netAlive) =>
                (mCreg' = 2 /\ cregUpdates' = cregUpdates + 1)]_vars

\* the report was handed to three registered closures, the cache held 2
\* already and was assigned once
C27_Witness ==
    /\ pLine = Creg2
    /\ pPc = "sent"
    /\ Len(netResponseSinks) = 3
    /\ \A h \in Handlers : netCalls[h] = 1
    /\ mCreg = 2
    /\ cregUpdates = 1

(***************************************************************************)
(* Claims about the call list.                                             *)
(***************************************************************************)
ClccAlone == <<"+", "C", "L", "C", "C", ":", " ", "1", ",", "0", ",", "0", ",", "0", ",", "0", ",", "\"", "1", "2", "3", "4", "5", "\"", ",", "1", "2", "9", "\r">>

\* C28: the line parser applied to the one line
\* +CLCC: 1,0,0,0,0,"12345",129\r consumes all of it and yields a CLCC
\* response with one Call: index 1, state 0, not MT, voice, number 12345,
\* toa 129.
C28_ClccOnItsOwn ==
    (pIn = ClccAlone /\ pPc = "done") =>
        /\ pOut.consumed = Len(pIn)
        /\ pOut.response # nullptr
        /\ pOut.response.id = "CLCC"
        /\ LET calls == CLCC_callList(Parser(pOut.response.payload))
           IN  /\ Len(calls) = 1
               /\ calls[1].index = 1
               /\ calls[1].state = 0
               /\ ~calls[1].isMT
               /\ calls[1].isVoice
               /\ calls[1].number = <<"1", "2", "3", "4", "5">>
               /\ calls[1].toa = 129

(***************************************************************************)
(* IdAllocator (RadioData's context ids and keepalive session handles).    *)
(* RadioData calls get() and put() under its mMtx, and put() only with an  *)
(* id that get() returned and that was not put back since.                 *)
(***************************************************************************)

\* an std::set ordered by std::greater: begin() is at the largest element,
\* rbegin() at the smallest
begin(ids) == CHOOSE x \in ids : \A y \in ids : y <= x

\* a get that takes the id at begin()
rbeginAtLargest(ids) == CHOOSE x \in ids : \A y \in ids : y <= x

rbegin(ids) == CHOOSE x \in ids : \A y \in ids : x <= y

\* a put that does not look at the returned ids
putLoopNone(gen, ids) == [gen |-> gen, ids |-> ids]

\* a put whose loop decrements the counter past the returned ids it meets
\* and leaves them in the set
RECURSIVE putLoopKeeping(_, _)
putLoopKeeping(gen, ids) ==
    IF gen \in ids
    THEN [putLoopKeeping(gen - 1, ids \ {gen}) EXCEPT !.ids = ids]
    ELSE [gen |-> gen, ids |-> ids]

\* the while loop of IdAllocator::put: as long as the id at begin() is the
\* counter, the counter is decremented and the id erased
RECURSIVE putLoop(_, _)
putLoop(gen, ids) ==
    IF ids # {} /\ begin(ids) = gen
    THEN putLoop(gen - 1, ids \ {begin(ids)})
    ELSE [gen |-> gen, ids |-> ids]

\* IdAllocator::get
get ==
    /\ IF mReturnedIds = {}
       THEN /\ mIdGenerator < MaxIds
            /\ mIdGenerator' = mIdGenerator + 1
            /\ idResult' = mIdGenerator + 1
            /\ UNCHANGED mReturnedIds
       ELSE /\ idResult' = rbegin(mReturnedIds)
            /\ mReturnedIds' = mReturnedIds \ {rbegin(mReturnedIds)}
            /\ UNCHANGED mIdGenerator
    /\ idHolders' = [idHolders EXCEPT ![idResult'] = @ + 1]

\* IdAllocator::put(id)
put(id) ==
    /\ IF id = mIdGenerator
       THEN /\ mIdGenerator' = putLoop(mIdGenerator - 1, mReturnedIds).gen
            /\ mReturnedIds' = putLoop(mIdGenerator - 1, mReturnedIds).ids
       ELSE /\ mReturnedIds' = mReturnedIds \cup {id}
            /\ UNCHANGED mIdGenerator
    /\ idHolders' = [idHolders EXCEPT ![id] = @ - 1]
    /\ UNCHANGED idResult

\* a caller takes an id
IdGet ==
    /\ get
    /\ UNCHANGED <<channelVars, lineVars, streamVars, netVars, lockVars,
                   handlerVars>>

\* a caller gives back an id it holds
IdPut ==
    /\ \E id \in (1..mIdGenerator) \ mReturnedIds : put(id)
    /\ UNCHANGED <<channelVars, lineVars, streamVars, netVars, lockVars,
                   handlerVars>>

IdNext == IdGet \/ IdPut

IdSpec == Init /\ [][IdNext]_vars

(***************************************************************************)
(* Claims about IdAllocator.                                               *)
(***************************************************************************)
\* C29: get() with returned ids at hand returns the smallest of them and
\* removes it, the counter staying as it is; with none it increments the
\* counter and returns the new value.
C29_GetReusesSmallest ==
    /\ [][mIdGenerator' > mIdGenerator =>
            /\ mReturnedIds = {}
            /\ mIdGenerator' = mIdGenerator + 1
            /\ idResult' = mIdGenerator'
            /\ mReturnedIds' = mReturnedIds]_vars
    /\ [][(mReturnedIds' # mReturnedIds /\ mReturnedIds' \subseteq mReturnedIds
             /\ mIdGenerator' = mIdGenerator) =>
            /\ \A id \in mReturnedIds : idResult' <= id
            /\ idResult' \in mReturnedIds
            /\ mReturnedIds' = mReturnedIds \ {idResult'}]_vars

\* get() has returned 2 while 4 was returned as well and the counter is 5
C29_Witness ==
    /\ idResult = 2
    /\ mReturnedIds = {4}
    /\ mIdGenerator = 5

\* C30: put() of the id that equals the counter decrements the counter and
\* goes on decrementing it while its new value is among the returned ids,
\* which are removed; put() of another id adds it to the returned ids and
\* leaves the counter.
C30_PutCompacts ==
    /\ [][mIdGenerator' < mIdGenerator =>
            /\ mIdGenerator' \notin mReturnedIds
            /\ \A id \in (mIdGenerator' + 1)..(mIdGenerator - 1) :
                  id \in mReturnedIds
            /\ mReturnedIds' =
                  mReturnedIds \ ((mIdGenerator' + 1)..(mIdGenerator - 1))]_vars
    /\ [][(mReturnedIds' # mReturnedIds /\ mReturnedIds \subseteq mReturnedIds') =>
            /\ mIdGenerator' = mIdGenerator
            /\ \E id \in (1..(mIdGenerator - 1)) \ mReturnedIds :
                  mReturnedIds' = mReturnedIds \cup {id}]_vars
    /\ [](mIdGenerator \notin mReturnedIds)

\* 5 was put while 3 and 4 were among the returned ids and 1 as well: the
\* counter is 2, of the returned ids 1 is left
C30_Witness ==
    /\ mIdGenerator = 2
    /\ mReturnedIds = {1}
    /\ idResult = 5

(***************************************************************************)
(* Claims about write errors in request closures.                          *)
(***************************************************************************)
\* the request worker leaves a closure in which the transmission failed: a
\* closure whose Conversation call ended on the failed write, or a closure
\* that called the RequestPipe itself and nothing was written
ClosureWriteError ==
    /\ reqPc = "body"
    /\ reqPc' = "get"
    /\ \/ requester.kind = "conv" /\ call.end = "write"
       \/ requester.kind = "fire" /\ pending' = pending

\* C31: when the write of a request closure fails the handle is closed by
\* the time the closure has returned, before the next closure is taken,
\* whether the closure waits on a Conversation or not.
C31_WriteErrorCloses == [][ClosureWriteError => mHostChannel' = 0]_vars

(***************************************************************************)
(* Claims about the list of response sinks.                                *)
(***************************************************************************)
\* C32: broadcastResponse invokes the registered closures in registration
\* order, each once; a closure that reports its handler gone is removed from
\* the list, so it is not invoked for a later response; the closures kept
\* stay in their order and are invoked for this response and the later
\* ones.
C32_OrderedAndPruned ==
    /\ [][(pPc = "done" /\ pPc' = "sent") =>
            /\ netOrder' = netResponseSinks
            /\ netResponseSinks' =
                  SelectSeq(netResponseSinks, LAMBDA h : h \in netAlive)]_vars
    /\ [](\A i, j \in DOMAIN netResponseSinks :
            netResponseSinks[i] = netResponseSinks[j] => i = j)

\* the second response was handed to radioSim and radioNetwork in that
\* order, after radioVoice, registered between them, was removed on the
\* first
C32_Witness ==
    /\ netSeen = 2
    /\ pPc = "sent"
    /\ netOrder = <<"radioSim", "radioNetwork">>
    /\ netResponseSinks = netOrder
    /\ netCalls = [h \in Handlers |-> IF h = "radioVoice" THEN 1 ELSE 2]

(***************************************************************************)
(* The mutexes of the Channel: each Conversation's mMtx and                *)
(* mResponseSinksMtx, as the request worker (Conversation::operator()),    *)
(* the reader worker (broadcastResponse) and main (addResponseSink) take   *)
(* and release them.  A lock_guard is two steps: the acquisition and the   *)
(* critical section with the release at its end.                           *)
(***************************************************************************)
\* the addResponseSink calls of main
MaxAdds == 2

Acquire(m, t) ==
    /\ mtxOwner[m] = "none"
    /\ mtxOwner' = [mtxOwner EXCEPT ![m] = t]

Release(m) == mtxOwner' = [mtxOwner EXCEPT ![m] = "none"]

\* a request closure or mInitSequence calls Conversation::operator() on the
\* Channel's or the handler's Conversation
LkCall ==
    /\ UNCHANGED nonLockVars
    /\ lkReq.pc = "idle"
    /\ \E c \in Convs : lkReq' = [pc |-> "lockArm", conv |-> c]
    /\ UNCHANGED <<mtxOwner, lkRd, lkAdds, lkFilter, lkPromise>>

\* operator(): lock_guard of the first block
LkArmLock ==
    /\ UNCHANGED nonLockVars
    /\ lkReq.pc = "lockArm"
    /\ Acquire(lkReq.conv, "request")
    /\ lkReq' = [lkReq EXCEPT !.pc = "arm"]
    /\ UNCHANGED <<lkRd, lkAdds, lkFilter, lkPromise>>

\* an operator() whose first lock_guard lives to the end of the function
LkArmHolding ==
    /\ UNCHANGED nonLockVars
    /\ lkReq.pc = "arm"
    /\ lkFilter' = [lkFilter EXCEPT ![lkReq.conv] = TRUE]
    /\ lkPromise' = [lkPromise EXCEPT ![lkReq.conv] = FALSE]
    /\ lkReq' = [lkReq EXCEPT !.pc = "write"]
    /\ UNCHANGED <<mtxOwner, lkRd, lkAdds>>

\* operator(): mFilter = &filter; mSink = promise(); end of the block
LkArm ==
    /\ UNCHANGED nonLockVars
    /\ lkReq.pc = "arm"
    /\ lkFilter' = [lkFilter EXCEPT ![lkReq.conv] = TRUE]
    /\ lkPromise' = [lkPromise EXCEPT ![lkReq.conv] = FALSE]
    /\ Release(lkReq.conv)
    /\ lkReq' = [lkReq EXCEPT !.pc = "write"]
    /\ UNCHANGED <<lkRd, lkAdds>>

\* operator(): requestPipe(request) succeeds or fails, no mutex held
LkWrite ==
    /\ UNCHANGED nonLockVars
    /\ lkReq.pc = "write"
    /\ \E to \in {"wait", "lockDisarm"} : lkReq' = [lkReq EXCEPT !.pc = to]
    /\ UNCHANGED <<mtxOwner, lkRd, lkAdds, lkFilter, lkPromise>>

\* operator(): wait_for returns ready and the call returns
LkReady ==
    /\ UNCHANGED nonLockVars
    /\ lkReq.pc = "wait"
    /\ lkPromise[lkReq.conv]
    /\ lkReq' = [pc |-> "idle", conv |-> "none"]
    /\ UNCHANGED <<mtxOwner, lkRd, lkAdds, lkFilter, lkPromise>>

\* operator(): wait_for returns timeout
LkTimeout ==
    /\ UNCHANGED nonLockVars
    /\ lkReq.pc = "wait"
    /\ lkReq' = [lkReq EXCEPT !.pc = "lockDisarm"]
    /\ UNCHANGED <<mtxOwner, lkRd, lkAdds, lkFilter, lkPromise>>

\* operator(): lock_guard of the failed-write or of the timeout branch
LkDisarmLock ==
    /\ UNCHANGED nonLockVars
    /\ lkReq.pc = "lockDisarm"
    /\ Acquire(lkReq.conv, "request")
    /\ lkReq' = [lkReq EXCEPT !.pc = "disarm"]
    /\ UNCHANGED <<lkRd, lkAdds, lkFilter, lkPromise>>

\* operator(): mFilter = nullptr; end of the block; return nullptr
LkDisarm ==
    /\ UNCHANGED nonLockVars
    /\ lkReq.pc = "disarm"
    /\ lkFilter' = [lkFilter EXCEPT ![lkReq.conv] = FALSE]
    /\ Release(lkReq.conv)
    /\ lkReq' = [pc |-> "idle", conv |-> "none"]
    /\ UNCHANGED <<lkRd, lkAdds, lkPromise>>

\* the reader worker has parsed a response (one the armed filter accepts or
\* not) and enters broadcastResponse
LkRead ==
    /\ UNCHANGED nonLockVars
    /\ lkRd.pc = "read"
    /\ \E ok \in BOOLEAN : lkRd' = [pc |-> "lockSend", ok |-> ok]
    /\ UNCHANGED <<mtxOwner, lkReq, lkAdds, lkFilter, lkPromise>>

\* Conversation::send on c for the reader's response, up to the release
LkConvSend(c) ==
    /\ IF lkFilter[c] /\ lkRd.ok
       THEN /\ lkFilter' = [lkFilter EXCEPT ![c] = FALSE]
            /\ lkPromise' = [lkPromise EXCEPT ![c] = TRUE]
       ELSE UNCHANGED <<lkFilter, lkPromise>>
    /\ Release(c)

\* mConversation.send: lock_guard
LkSendLock ==
    /\ UNCHANGED nonLockVars
    /\ lkRd.pc = "lockSend"
    /\ Acquire("channel", "reader")
    /\ lkRd' = [lkRd EXCEPT !.pc = "send"]
    /\ UNCHANGED <<lkReq, lkAdds, lkFilter, lkPromise>>

\* mConversation.send: the body
LkSend ==
    /\ UNCHANGED nonLockVars
    /\ lkRd.pc = "send"
    /\ LkConvSend("channel")
    /\ lkRd' = [lkRd EXCEPT !.pc = "lockSinks"]
    /\ UNCHANGED <<lkReq, lkAdds>>

\* broadcastResponse: lock_guard on mResponseSinksMtx
LkSinksLock ==
    /\ UNCHANGED nonLockVars
    /\ lkRd.pc = "lockSinks"
    /\ Acquire("sinks", "reader")
    /\ lkRd' = [lkRd EXCEPT !.pc = "lockSink"]
    /\ UNCHANGED <<lkReq, lkAdds, lkFilter, lkPromise>>

\* RadioVoice::atResponseSink called from remove_if: mAtConversation.send,
\* lock_guard
LkSinkLock ==
    /\ UNCHANGED nonLockVars
    /\ lkRd.pc = "lockSink"
    /\ Acquire("voice", "reader")
    /\ lkRd' = [lkRd EXCEPT !.pc = "sinkSend"]
    /\ UNCHANGED <<lkReq, lkAdds, lkFilter, lkPromise>>

\* mAtConversation.send: the body
LkSinkSend ==
    /\ UNCHANGED nonLockVars
    /\ lkRd.pc = "sinkSend"
    /\ LkConvSend("voice")
    /\ lkRd' = [lkRd EXCEPT !.pc = "unlockSinks"]
    /\ UNCHANGED <<lkReq, lkAdds>>

\* broadcastResponse returns: mResponseSinksMtx released
LkSinksUnlock ==
    /\ UNCHANGED nonLockVars
    /\ lkRd.pc = "unlockSinks"
    /\ Release("sinks")
    /\ lkRd' = [pc |-> "read", ok |-> FALSE]
    /\ UNCHANGED <<lkReq, lkAdds, lkFilter, lkPromise>>

\* addResponseSink on main: lock_guard
LkAddLock ==
    /\ UNCHANGED nonLockVars
    /\ lkAdds < MaxAdds
    /\ Acquire("sinks", "main")
    /\ UNCHANGED <<lkReq, lkRd, lkAdds, lkFilter, lkPromise>>

\* addResponseSink: push_back, return
LkAdd ==
    /\ UNCHANGED nonLockVars
    /\ mtxOwner["sinks"] = "main"
    /\ Release("sinks")
    /\ lkAdds' = lkAdds + 1
    /\ UNCHANGED <<lkReq, lkRd, lkFilter, lkPromise>>

LockNext ==
    \/ LkCall \/ LkArmLock \/ LkArm \/ LkWrite \/ LkReady \/ LkTimeout
    \/ LkDisarmLock \/ LkDisarm
    \/ LkRead \/ LkSendLock \/ LkSend \/ LkSinksLock \/ LkSinkLock
    \/ LkSinkSend \/ LkSinksUnlock
    \/ LkAddLock \/ LkAdd

\* a thread in a critical section leaves it; a thread at a lock_guard gets
\* the mutex when it is free again and again; wait_for need not time out
LockSpec ==
    /\ Init
    /\ [][LockNext]_vars
    /\ WF_vars(LkArm) /\ WF_vars(LkDisarm)
    /\ WF_vars(LkSend) /\ WF_vars(LkSinkSend) /\ WF_vars(LkSinksUnlock)
    /\ WF_vars(LkAdd)
    /\ SF_vars(LkSendLock) /\ SF_vars(LkSinksLock) /\ SF_vars(LkSinkLock)

(***************************************************************************)
(* Claims about the mutexes.                                               *)
(***************************************************************************)
\* the mutex thread t is at the lock_guard of
Awaits(t) ==
    IF t = "request"
    THEN IF lkReq.pc \in {"lockArm", "lockDisarm"} THEN lkReq.conv ELSE "none"
    ELSE IF t = "reader"
    THEN CASE lkRd.pc = "lockSend" -> "channel"
           [] lkRd.pc = "lockSinks" -> "sinks"
           [] lkRd.pc = "lockSink" -> "voice"
           [] OTHER -> "none"
    ELSE "none"

\* thread t waits for a mutex another thread (or t itself) holds
Blocked(t) == Awaits(t) # "none" /\ mtxOwner[Awaits(t)] # "none"

\* C33: no Conversation mutex is held while the caller of operator() is in
\* wait_for; the reader worker's send to a Conversation completes without
\* the caller's wait timing out; the request worker and the reader worker
\* never wait for each other on the Conversation mutexes and
\* mResponseSinksMtx.
C33_NoLockWhileWaiting ==
    /\ [](lkReq.pc = "wait" => \A m \in DOMAIN mtxOwner : mtxOwner[m] # "request")
    /\ [](\A t \in {"request", "reader"} :
            Blocked(t) => ~Blocked(mtxOwner[Awaits(t)]))
    /\ (lkRd.pc = "lockSend" ~> lkRd.pc = "lockSinks")
    /\ (lkRd.pc = "lockSink" ~> lkRd.pc = "unlockSinks")

\* the reader worker has fulfilled the handler's Conversation while the
\* request worker is still in wait_for on it
C33_Witness ==
    /\ lkReq = [pc |-> "wait", conv |-> "voice"]
    /\ lkRd.pc = "unlockSinks"
    /\ lkPromise["voice"]
    /\ mtxOwner["sinks"] = "reader"

(***************************************************************************)
(* RadioSim's cached radio power state: written by handleUnsolicited(CFUN) *)
(* on the reader worker, read by areUiccApplicationsEnabled on a binder    *)
(* thread; RadioSim::mMtx is mtxOwner["sim"].                              *)
(***************************************************************************)
nonSimVars == <<channelVars, lineVars, streamVars, netVars, idVars, dataVars,
                lkReq, lkRd, lkAdds, lkFilter, lkPromise>>

\* an access to mRadioState by thread t, with or without mMtx held
Access(t, op) ==
    simAccess' = [by |-> t, op |-> op, held |-> mtxOwner["sim"] = t]

\* a binder thread enters areUiccApplicationsEnabled
SimRpcCall ==
    /\ simRpc.pc = "idle"
    /\ simRpc' = [pc |-> "lock", radioState |-> "OFF"]
    /\ UNCHANGED <<mtxOwner, mRadioState, simRd, simAccess>>
    /\ UNCHANGED nonSimVars

\* areUiccApplicationsEnabled: lock_guard
SimRpcLock ==
    /\ simRpc.pc = "lock"
    /\ Acquire("sim", "binder")
    /\ simRpc' = [simRpc EXCEPT !.pc = "read"]
    /\ UNCHANGED <<mRadioState, simRd, simAccess>>
    /\ UNCHANGED nonSimVars

\* areUiccApplicationsEnabled: radioState = mRadioState; end of the block
SimRpcRead ==
    /\ simRpc.pc = "read"
    /\ Access("binder", "read")
    /\ Release("sim")
    /\ simRpc' = [pc |-> "respond", radioState |-> mRadioState]
    /\ UNCHANGED <<mRadioState, simRd>>
    /\ UNCHANGED nonSimVars

\* areUiccApplicationsEnabled: the response, with NONE when radioState is ON
SimRpcRespond ==
    /\ simRpc.pc = "respond"
    /\ simRpc' = [simRpc EXCEPT !.pc = "idle"]
    /\ UNCHANGED <<mtxOwner, mRadioState, simRd, simAccess>>
    /\ UNCHANGED nonSimVars

\* RadioSim::atResponseSink visits a CFUN response on the reader worker
SimCfun ==
    /\ simRd.pc = "idle"
    /\ \E state \in {"OFF", "ON"} : simRd' = [pc |-> "lock", state |-> state]
    /\ UNCHANGED <<mtxOwner, mRadioState, simRpc, simAccess>>
    /\ UNCHANGED nonSimVars

\* handleUnsolicited(CFUN): lock_guard
SimUnsolLock ==
    /\ simRd.pc = "lock"
    /\ Acquire("sim", "reader")
    /\ simRd' = [simRd EXCEPT !.pc = "update"]
    /\ UNCHANGED <<mRadioState, simRpc, simAccess>>
    /\ UNCHANGED nonSimVars

\* handleUnsolicited(CFUN): changed = mRadioState != cfun.state;
\* mRadioState = cfun.state; end of the block; then
\* `if (changed && mRadioSimIndication)`
SimUnsolUpdate ==
    /\ simRd.pc = "update"
    /\ Access("reader", "write")
    /\ mRadioState' = simRd.state
    /\ Release("sim")
    /\ \E indication \in BOOLEAN :
          simRd' = [simRd EXCEPT !.pc =
                       IF mRadioState # simRd.state /\ indication
                       THEN "indicate" ELSE "idle"]
    /\ UNCHANGED simRpc
    /\ UNCHANGED nonSimVars

\* handleUnsolicited(CFUN): simStatusChanged, then
\* subscriptionStatusChanged(UNSOLICITED, mRadioState == RadioState::ON)
SimUnsolIndicate ==
    /\ simRd.pc = "indicate"
    /\ Access("reader", "read")
    /\ simRd' = [simRd EXCEPT !.pc = "idle"]
    /\ UNCHANGED <<mtxOwner, mRadioState, simRpc>>
    /\ UNCHANGED nonSimVars

SimNext ==
    \/ SimRpcCall \/ SimRpcLock \/ SimRpcRead \/ SimRpcRespond
    \/ SimCfun \/ SimUnsolLock \/ SimUnsolUpdate \/ SimUnsolIndicate

SimSpec == Init /\ [][SimNext]_vars

(***************************************************************************)
(* Claims about the handlers' locks.                                       *)
(***************************************************************************)
\* C34: every read and write of handler state shared between the binder or
\* request threads and the reader worker is made with the handler's mutex
\* held by the accessing thread.
C34_AccessUnderLock == simAccess.held

(***************************************************************************)
(* Claims about ParseError and the filters.                                *)
(***************************************************************************)
\* the variants whose id() is the cmd a ParseError carries
VariantsOf(cmd) ==
    {e.name : e \in {e \in Range(plusValueParsers) \cup Range(percentValueParsers)
                              \cup Range(caretValueParsers) : e.cmd = cmd}}

\* C35: a ParseError that carries the tag of T satisfies holds<T>, and never
\* holds<OK>, holds<SmsPrompt> or holds<std::string>; so a Conversation
\* armed with holds<T> claims it: send disarms the filter and fulfils the
\* promise with it, which is what the waiting call returns.
C35_ParseErrorClaimed ==
    (pPc = "done" /\ pOut.response.id = "ParseError") =>
        /\ VariantsOf(pOut.response.payload) # {}
        /\ \A T \in VariantsOf(pOut.response.payload) :
              /\ holds(T, pOut.response)
              /\ ConvSend([filter |-> T, promise |-> NoResp], pOut.response)
                   = [filter |-> NoFilter, promise |-> pOut.response,
                      claimed |-> TRUE]
        /\ \A T \in {"OK", "SmsPrompt", "string"} : ~holds(T, pOut.response)

\* the payload of a +CFUN line does not decode: the response is a
\* ParseError that carries CFUN
C35_Witness ==
    /\ pPc = "done"
    /\ pOut.response.id = "ParseError"
    /\ pOut.response.payload = <<"C", "F", "U", "N">>
    /\ pOut.consumed = Len(pIn)

(***************************************************************************)
(* Claims about the reader worker and the closed handle.                   *)
(***************************************************************************)
\* requestLoop resets mHostChannel: after a closure that returned false or
\* after the empty Requester
HandleClosed == mHostChannel # 0 /\ mHostChannel' = 0 /\ ~aborted'

\* C36: when the request worker closes the handle, the reader worker bound
\* to it has stopped reading already, so no read is issued on a closed
\* handle.
C36_ReaderStoppedAtClose == [][HandleClosed => ~ReaderWorkerRuns]_vars

(***************************************************************************)
(* Claims about the Conversations of the Channel and of the handlers.      *)
(***************************************************************************)
\* the Conversations whose filter is set
Armed == {c \in Convs : mFilter[c] # NoFilter}

\* the request worker is inside Conversation::operator() of c, between its
\* first critical section and its return
InsideCall(c) == callPc \in {"armed", "wait", "expired"} /\ call.conv = c

\* C37: at any instant at most one Conversation is armed, over the Channel's
\* own and the handlers': a Conversation is armed only inside a call made by
\* the initialization sequence or by the closure the request worker runs,
\* and every such call has disarmed it when it returns.
C37_OneArmed ==
    /\ [](Cardinality(Armed) <= 1)
    /\ [](\A c \in Armed :
            /\ InsideCall(c)
            /\ IF c = "channel" THEN reqPc = "init" ELSE reqPc = "body")
    /\ [](callPc = "ret" => Armed = {})

\* the handler's Conversation alone is armed, in the wait of a closure's
\* call, after the initialization sequence armed and disarmed the Channel's
\* own Conversation and an earlier closure armed and disarmed the handler's
C37_Witness ==
    /\ Armed = {"voice"}
    /\ callPc = "wait"
    /\ initDone = mHostChannel
    /\ waited["channel"] # {}
    /\ waited["voice"] # {}

(***************************************************************************)
(* Claims about the order of dispatch.                                     *)
(***************************************************************************)
\* s is an initial part of t
IsPrefixOf(s, t) == Len(s) <= Len(t) /\ s = SubSeq(t, 1, Len(s))

\* the responses of the message m received alone, in one read
ResponsesOf(m) == receiveResponsesImpl(m).sent

\* the responses of the stream in the order of its messages on the wire
WireOrder ==
    IF stream \in StreamMessages THEN ResponsesOf(stream)
    ELSE LET ab == CHOOSE p \in StreamMessages \X StreamMessages :
                       stream = p[1] \o p[2]
         IN ResponsesOf(ab[1]) \o ResponsesOf(ab[2])

\* C38: responses are dispatched in wire order: broadcastResponse is called
\* for the response of a message before it is called for the response of a
\* message behind it in the byte stream, whatever the read boundaries, and
\* a call has returned, the Conversation and every subscriber offered the
\* response, before the next is made.
C38_WireOrder ==
    /\ [](IsPrefixOf(dispatched, WireOrder))
    /\ [][IsPrefixOf(dispatched, dispatched')]_vars

\* a multi-line message and a single-line message sent in a row have both
\* been dispatched, the first before the second
C38_Witness ==
    /\ stream = <<"+", "C", "M", "T", ":", " ", "2", "\r", "A", "B", "\r",
                  "+", "C", "F", "U", "N", ":", "1", "\r">>
    /\ nRead = Len(stream)
    /\ unconsumed = <<>>
    /\ Len(dispatched) = 2
    /\ dispatched[1].id = "CMT"
    /\ dispatched[2].id = "CFUN"

(***************************************************************************)
(* Claims about the ids IdAllocator issues.                                *)
(***************************************************************************)
\* the ids some caller holds: returned by get() and not put back since
HeldIds == {id \in 1..MaxIds : idHolders[id] > 0}

\* C39: IdAllocator never issues a duplicate: with put() called only on ids
\* that are held, every get() returns a positive id that no caller holds at
\* that moment.
C39_NoDuplicate ==
    /\ [][\A id \in 1..MaxIds :
            idHolders'[id] > idHolders[id] =>
                (idResult' = id /\ idResult' > 0 /\ id \notin HeldIds)]_vars
    /\ [](\A id \in 1..MaxIds : idHolders[id] <= 1)
    /\ [](HeldIds = (1..mIdGenerator) \ mReturnedIds)

\* get() has issued 2 for the second time, after 2 and 3 were put back
\* while 1 and 4 stayed with their holders
C39_Witness ==
    /\ idResult = 2
    /\ mIdGenerator = 4
    /\ mReturnedIds = {3}
    /\ HeldIds = {1, 2, 4}

(***************************************************************************)
(* RadioData: the ids of data calls and keepalive sessions                 *)
(* (RadioData.cpp:228-460).  Every step below is one critical section      *)
(* under RadioData::mMtx.                                                  *)
(***************************************************************************)
nonDataVars == <<channelVars, lineVars, streamVars, netVars, lockVars, simVars>>

\* the setupDataCall closure starts on the request worker:
\* const int32_t cid = allocateId()
DataSetupAllocate ==
    /\ dataSetup.pc = "idle"
    /\ get
    /\ dataSetup' = [pc |-> "run", cid |-> idResult']
    /\ UNCHANGED <<mDataCalls, mKeepAliveSessions, dataKeep, nonDataVars>>

\* a setupDataCall closure that answers the failure and returns without
\* releaseId(cid)
DataSetupFailedLeaking ==
    /\ dataSetup.pc = "run"
    /\ dataSetup' = [pc |-> "idle", cid |-> 0]
    /\ UNCHANGED <<idVars, mDataCalls, mKeepAliveSessions, dataKeep, nonDataVars>>

\* the setupDataCall closure at `failed:` (empty request, null or CmeError
\* response, parse error, setIpAddr failure): releaseId(cid) and return
DataSetupFailed ==
    /\ dataSetup.pc = "run"
    /\ put(dataSetup.cid)
    /\ dataSetup' = [pc |-> "idle", cid |-> 0]
    /\ UNCHANGED <<mDataCalls, mKeepAliveSessions, dataKeep, nonDataVars>>

\* the setupDataCall closure on a CGCONTRDP response:
\* mDataCalls.insert({cid, setupDataCallResult}) and return true
DataSetupInsert ==
    /\ dataSetup.pc = "run"
    /\ mDataCalls' = mDataCalls \cup {dataSetup.cid}
    /\ dataSetup' = [pc |-> "idle", cid |-> 0]
    /\ UNCHANGED <<idVars, mKeepAliveSessions, dataKeep, nonDataVars>>

\* deactivateDataCall(cid) on a binder thread, one critical section: a cid
\* found in mDataCalls is erased and put back, any other changes nothing
DataDeactivate ==
    /\ \E cid \in 1..MaxIds :
          IF cid \in mDataCalls
          THEN /\ mDataCalls' = mDataCalls \ {cid}
               /\ put(cid)
          ELSE UNCHANGED <<idVars, mDataCalls>>
    /\ UNCHANGED <<mKeepAliveSessions, dataSetup, dataKeep, nonDataVars>>

\* startKeepalive: const int32_t sessionHandle = allocateId()
DataStartKeepalive(b) ==
    /\ dataKeep[b].pc = "idle"
    /\ get
    /\ dataKeep' = [dataKeep EXCEPT ![b] = [pc |-> "insert", id |-> idResult']]
    /\ UNCHANGED <<mDataCalls, mKeepAliveSessions, dataSetup, nonDataVars>>

\* startKeepalive: mKeepAliveSessions.insert(sessionHandle)
DataKeepInsert(b) ==
    /\ dataKeep[b].pc = "insert"
    /\ mKeepAliveSessions' = mKeepAliveSessions \cup {dataKeep[b].id}
    /\ dataKeep' = [dataKeep EXCEPT ![b] = [pc |-> "idle", id |-> 0]]
    /\ UNCHANGED <<idVars, mDataCalls, dataSetup, nonDataVars>>

\* stopKeepalive(sessionHandle):
\* removed = mKeepAliveSessions.erase(sessionHandle) > 0; when nothing was
\* removed the call answers INVALID_ARGUMENTS and returns
DataStopKeepalive(b) ==
    /\ dataKeep[b].pc = "idle"
    /\ \E sessionHandle \in 1..MaxIds :
          IF sessionHandle \in mKeepAliveSessions
          THEN /\ mKeepAliveSessions' = mKeepAliveSessions \ {sessionHandle}
               /\ dataKeep' = [dataKeep EXCEPT
                                 ![b] = [pc |-> "release", id |-> sessionHandle]]
          ELSE UNCHANGED <<mKeepAliveSessions, dataKeep>>
    /\ UNCHANGED <<idVars, mDataCalls, dataSetup, nonDataVars>>

\* stopKeepalive: if (removed) releaseId(sessionHandle)
DataKeepRelease(b) ==
    /\ dataKeep[b].pc = "release"
    /\ put(dataKeep[b].id)
    /\ dataKeep' = [dataKeep EXCEPT ![b] = [pc |-> "idle", id |-> 0]]
    /\ UNCHANGED <<mDataCalls, mKeepAliveSessions, dataSetup, nonDataVars>>

DataNext ==
    \/ DataSetupAllocate \/ DataSetupFailed \/ DataSetupInsert
    \/ DataDeactivate
    \/ \E b \in Binders : DataStartKeepalive(b)
    \/ \E b \in Binders : DataKeepInsert(b)
    \/ \E b \in Binders : DataStopKeepalive(b)
    \/ \E b \in Binders : DataKeepRelease(b)

DataSpec == Init /\ [][DataNext]_vars

\* no setupDataCall closure, startKeepalive or stopKeepalive is in progress
DataQuiet ==
    /\ dataSetup.pc = "idle"
    /\ \A b \in Binders : dataKeep[b].pc = "idle"

\* C40: in RadioData, whenever no setupDataCall closure, startKeepalive or
\* stopKeepalive is in progress, the ids allocated from the IdAllocator are
\* the keys of mDataCalls together with mKeepAliveSessions, the two being
\* disjoint: a failed setupDataCall leaves no id behind and no id is put
\* back twice.
C40_IdsAccounted ==
    /\ [](DataQuiet =>
            /\ (1..mIdGenerator) \ mReturnedIds =
                   mDataCalls \cup mKeepAliveSessions
            /\ HeldIds = mDataCalls \cup mKeepAliveSessions
            /\ mDataCalls \cap mKeepAliveSessions = {})
    /\ [][\A id \in 1..MaxIds :
            idHolders'[id] < idHolders[id] => idHolders[id] = 1]_vars
    /\ [][(dataSetup.pc = "run" /\ dataSetup'.pc = "idle") =>
            (dataSetup.cid \in mDataCalls' \/ dataSetup.cid \notin HeldIds')]_vars

\* nothing is in progress, a data call holds 1 and a keepalive session 4,
\* while 2 and 3 were put back by a failed setupDataCall and a stopKeepalive
C40_Witness ==
    /\ DataQuiet
    /\ mDataCalls = {1}
    /\ mKeepAliveSessions = {4}
    /\ mReturnedIds = {2, 3}
    /\ mIdGenerator = 4

====
